---------------------------- MODULE Spec2Model ----------------------------
(***************************************************************************)
(* A model of telnyx-mock's request pipeline (server.go): the router built *)
(* by initializeRouter, routeRequest, validateAuth, and the stages of      *)
(* HandleRequest.                                                          *)
(*                                                                         *)
(* A Go string is a sequence of one-character strings, so that the         *)
(* splitting, prefix, suffix and pattern operations of the code are        *)
(* computed character by character.                                        *)
(***************************************************************************)
EXTENDS Integers, Sequences, FiniteSets, TLC

\* A Go pointer (or an optional value) is a sequence: empty for nil, the one
\* value it points to otherwise.
Nil == <<>>
Ptr(v) == <<v>>
Deref(p) == p[1]

(***************************************************************************)
(* Go's strings package                                                    *)
(***************************************************************************)

\* strings.HasPrefix
HasPrefix(s, prefix) ==
    /\ Len(prefix) <= Len(s)
    /\ SubSeq(s, 1, Len(prefix)) = prefix

\* strings.HasSuffix
HasSuffix(s, suffix) ==
    /\ Len(suffix) <= Len(s)
    /\ SubSeq(s, Len(s) - Len(suffix) + 1, Len(s)) = suffix

\* strings.Index, 1-based; 0 when sep does not occur in s (sep is non-empty)
Index(s, sep) ==
    LET hits == {i \in 1..(Len(s) - Len(sep) + 1) :
                    SubSeq(s, i, i + Len(sep) - 1) = sep}
    IN  IF hits = {} THEN 0
        ELSE CHOOSE i \in hits : \A j \in hits : i <= j

\* strings.Split for a non-empty separator
RECURSIVE Split(_, _)
Split(s, sep) ==
    LET i == Index(s, sep)
    IN  IF i = 0 THEN <<s>>
        ELSE <<SubSeq(s, 1, i - 1)>>
                \o Split(SubSeq(s, i + Len(sep), Len(s)), sep)

\* strings.SplitAfterN(s, sep, 2): the text up to and including the first
\* sep, then the rest; s alone when sep does not occur
SplitAfterN2(s, sep) ==
    LET i == Index(s, sep)
    IN  IF i = 0 THEN <<s>>
        ELSE <<SubSeq(s, 1, i + Len(sep) - 1),
               SubSeq(s, i + Len(sep), Len(s))>>

\* strings.Join(parts, "")
RECURSIVE Concat(_)
Concat(parts) ==
    IF parts = <<>> THEN <<>> ELSE Head(parts) \o Concat(Tail(parts))

(***************************************************************************)
(* Literals of server.go                                                   *)
(***************************************************************************)

sBearer == <<"B", "e", "a", "r", "e", "r">>
sKEY == <<"K", "E", "Y">>
sV2 == <<"/", "v", "2">>
sReq123 == <<"r", "e", "q", "_", "1", "2", "3">>
sResponsesPrefix == <<"#", "/", "c", "o", "m", "p", "o", "n", "e", "n", "t", "s", "/", "r", "e", "s", "p", "o", "n", "s", "e", "s", "/">>
sSchemasPrefix == <<"#", "/", "c", "o", "m", "p", "o", "n", "e", "n", "t", "s", "/", "s", "c", "h", "e", "m", "a", "s", "/">>
sParametersPrefix == <<"#", "/", "c", "o", "m", "p", "o", "n", "e", "n", "t", "s", "/", "p", "a", "r", "a", "m", "e", "t", "e", "r", "s", "/">>
sApplicationJSON == <<"a", "p", "p", "l", "i", "c", "a", "t", "i", "o", "n", "/", "j", "s", "o", "n">>

hasPrimaryIDSuffixes ==
    <<  <<"}">>,
        <<"/", "a", "p", "p", "r", "o", "v", "e">>,
        <<"/", "c", "a", "p", "t", "u", "r", "e">>,
        <<"/", "c", "a", "n", "c", "e", "l">>,
        <<"/", "c", "l", "o", "s", "e">>,
        <<"/", "d", "e", "c", "l", "i", "n", "e">>,
        <<"/", "f", "i", "n", "a", "l", "i", "z", "e">>,
        <<"/", "m", "a", "r", "k", "_", "u", "n", "c", "o", "l", "l", "e", "c", "t", "i", "b", "l", "e">>,
        <<"/", "p", "a", "y">>,
        <<"/", "r", "e", "f", "u", "n", "d">>,
        <<"/", "r", "e", "j", "e", "c", "t">>,
        <<"/", "s", "e", "n", "d">>,
        <<"/", "v", "e", "r", "i", "f", "y">>,
        <<"/", "v", "o", "i", "d">>  >>

(***************************************************************************)
(* validateAuth                                                            *)
(***************************************************************************)

validateAuth(auth) ==
    IF auth = <<>> THEN FALSE
    ELSE
      LET parts == Split(auth, <<" ">>)
      IN  IF Len(parts) # 2 \/ parts[2] = <<>> THEN FALSE
          ELSE IF parts[1] # sBearer THEN FALSE
          ELSE
            LET keyParts == Split(parts[2], sKEY)
            IN  IF Len(keyParts) # 2 THEN FALSE
                ELSE IF Len(keyParts[2]) = 0 THEN FALSE
                ELSE TRUE

(***************************************************************************)
(* compilePath and the patterns it builds                                  *)
(*                                                                         *)
(* A compiled pattern is the sequence of the atoms between \A and \z:      *)
(*   [k |-> "lit", c |-> ch]   a character that matches itself             *)
(*   [k |-> "any"]             `.`, which matches any character but \n     *)
(*   [k |-> "cap", name |-> n] the group (?P<n>[^\.\/\?]+)                 *)
(***************************************************************************)

\* the characters of \w that the modelled documents use
WordChars == {"a", "b", "c", "d", "e", "f", "i", "l", "n", "p", "x", "y", "_", "1", "2"}

\* pathParameterPattern.FindAllStringSubmatch(part, -1), cut to what
\* compilePath reads of it: nil when part has no `{\w+}`, else the name in
\* the leftmost `{name}` of part
FirstParamName(part) ==
    LET \* end of the run of word characters that starts at position i
        RunEnd(i) ==
            CHOOSE j \in i..(Len(part) + 1) :
                /\ \A k \in i..(j - 1) : part[k] \in WordChars
                /\ (j = Len(part) + 1 \/ part[j] \notin WordChars)
        opens == {i \in 1..Len(part) :
                    /\ part[i] = "{"
                    /\ RunEnd(i + 1) > i + 1
                    /\ RunEnd(i + 1) <= Len(part)
                    /\ part[RunEnd(i + 1)] = "}"}
    IN  IF opens = {} THEN Nil
        ELSE LET i == CHOOSE o \in opens : \A o2 \in opens : o <= o2
             IN  Ptr(SubSeq(part, i + 1, RunEnd(i + 1) - 1))

\* the atoms of a literal part, which compilePath pastes into the pattern as
\* it stands
LiteralAtoms(part) ==
    [i \in 1..Len(part) |->
        IF part[i] = "." THEN [k |-> "any"] ELSE [k |-> "lit", c |-> part[i]]]

\* a compilation that keeps the empty parts as literal segments
RECURSIVE CompileParts_KeepEmpty(_)
CompileParts_KeepEmpty(parts) ==
    IF parts = <<>> THEN [pattern |-> <<>>, names |-> <<>>]
    ELSE
      LET rest == CompileParts_KeepEmpty(Tail(parts))
          part == Head(parts)
          submatches == FirstParamName(part)
      IN  IF submatches = Nil THEN
            [pattern |-> <<[k |-> "lit", c |-> "/"]>> \o LiteralAtoms(part)
                            \o rest.pattern,
             names   |-> rest.names]
          ELSE
            [pattern |-> <<[k |-> "lit", c |-> "/"], [k |-> "cap", name |-> Deref(submatches)]>>
                            \o rest.pattern,
             names   |-> <<Deref(submatches)>> \o rest.names]

RECURSIVE CompileParts(_)
CompileParts(parts) ==
    IF parts = <<>> THEN [pattern |-> <<>>, names |-> <<>>]
    ELSE
      LET rest == CompileParts(Tail(parts))
          part == Head(parts)
          submatches == FirstParamName(part)
      IN  IF part = <<>> THEN rest
          ELSE IF submatches = Nil THEN
            [pattern |-> <<[k |-> "lit", c |-> "/"]>> \o LiteralAtoms(part)
                            \o rest.pattern,
             names   |-> rest.names]
          ELSE
            [pattern |-> <<[k |-> "lit", c |-> "/"], [k |-> "cap", name |-> Deref(submatches)]>>
                            \o rest.pattern,
             names   |-> <<Deref(submatches)>> \o rest.names]

compilePath(path) == CompileParts(Split(path, <<"/">>))

\* the characters the capture class [^\.\/\?] excludes
CaptureStops == {".", "/", "?"}

\* Matching of atoms i.. of pat against s from position j on, with the
\* captures made so far.  A capture group is followed by `/` or by \z, and its
\* class excludes `/`, so the only run it can take is the longest one.
RECURSIVE MatchFrom(_, _, _, _, _)
MatchFrom(pat, s, i, j, caps) ==
    IF i > Len(pat)
    THEN IF j = Len(s) + 1 THEN [ok |-> TRUE, caps |-> caps]
                           ELSE [ok |-> FALSE, caps |-> <<>>]
    ELSE IF pat[i].k = "cap" THEN
      LET stop == CHOOSE e \in j..(Len(s) + 1) :
                    /\ \A k \in j..(e - 1) : s[k] \notin CaptureStops
                    /\ (e = Len(s) + 1 \/ s[e] \in CaptureStops)
      IN  IF stop = j THEN [ok |-> FALSE, caps |-> <<>>]
          ELSE MatchFrom(pat, s, i + 1, stop, Append(caps, SubSeq(s, j, stop - 1)))
    ELSE IF j > Len(s) THEN [ok |-> FALSE, caps |-> <<>>]
    ELSE IF pat[i].k = "any" \/ pat[i].c = s[j]
      THEN MatchFrom(pat, s, i + 1, j + 1, caps)
      ELSE [ok |-> FALSE, caps |-> <<>>]

\* pattern.FindAllStringSubmatch(s, -1): no match, or the one match of the
\* anchored pattern: the whole text followed by the captures
FindAllStringSubmatch(pat, s) ==
    LET m == MatchFrom(pat, s, 1, 1, <<>>)
    IN  IF m.ok THEN << <<s>> \o m.caps >> ELSE <<>>

(***************************************************************************)
(* The OpenAPI document the server is started with (s.spec): a small       *)
(* document whose paths cover the shapes the router distinguishes.         *)
(***************************************************************************)

RefToResponse(name) == [ref |-> sResponsesPrefix \o name]
RefToSchema(name) == sSchemasPrefix \o name

\* an operation's requestBody with its one media type
JSONBody == Ptr([content |-> (sApplicationJSON :> [schema |-> Ptr(<<"S", "1">>)])])

Operation(id, responses, body) ==
    [operationID |-> id, responses |-> responses, requestBody |-> body]

\* s.spec.Paths: path template -> verb -> operation
Paths ==
    <<
      \* /x/f; its put names a response whose data names no component schema,
      \* its post declares no request body
      [path  |-> <<"/", "x", "/", "f">>,
       verbs |-> ("get" :> Operation("listX", ("200" :> RefToResponse(<<"R", "L">>)), Nil))
              @@ ("put" :> Operation("putF", ("200" :> RefToResponse(<<"R", "B">>)), JSONBody))
              @@ ("post" :> Operation("postF", ("200" :> RefToResponse(<<"R", "1">>)), Nil))],
      \* /x/{id}; its put names a response that is no component
      [path  |-> <<"/", "x", "/", "{", "i", "d", "}">>,
       verbs |-> ("get" :> Operation("getX", ("200" :> RefToResponse(<<"R", "1">>)), Nil))
              @@ ("delete" :> Operation("deleteX", ("202" :> RefToResponse(<<"R", "1">>)), Nil))
              @@ ("put" :> Operation("putX", ("200" :> RefToResponse(<<"R", "X">>)), JSONBody))],
      \* /x/{p}/{id}
      [path  |-> <<"/", "x", "/", "{", "p", "}", "/", "{", "i", "d", "}">>,
       verbs |-> ("get" :> Operation("getSub",
                    ("201" :> RefToResponse(<<"R", "1">>))
                        @@ ("202" :> RefToResponse(<<"R", "L">>)), Nil))],
      \* /x/{id}/y
      [path  |-> <<"/", "x", "/", "{", "i", "d", "}", "/", "y">>,
       verbs |-> ("patch" :> Operation("patchYs", ("200" :> RefToResponse(<<"R", "L">>)), JSONBody))],
      \* /x/y/{id}
      [path  |-> <<"/", "x", "/", "y", "/", "{", "i", "d", "}">>,
       verbs |-> ("patch" :> Operation("patchY", ("200" :> RefToResponse(<<"R", "1">>)), JSONBody))],
      \* /x/cancel; its delete declares no 200, 201 or 202 response
      [path  |-> <<"/", "x", "/", "c", "a", "n", "c", "e", "l">>,
       verbs |-> ("post" :> Operation("cancelAll", ("200" :> RefToResponse(<<"R", "1">>)), JSONBody))
              @@ ("delete" :> Operation("purge", ("204" :> RefToResponse(<<"R", "1">>)), Nil))],
      \* /x/{id}/cancel
      [path  |-> <<"/", "x", "/", "{", "i", "d", "}", "/", "c", "a", "n", "c", "e", "l">>,
       verbs |-> ("post" :> Operation("cancelX", ("201" :> RefToResponse(<<"R", "1">>)), JSONBody))]
    >>

DataSchema(ref, items) == [ref |-> ref, items |-> items]
ResponseComponent(data) ==
    [content |-> (sApplicationJSON :>
                    [schema |-> Ptr([properties |-> ("data" :> Ptr(data))])])]

\* s.spec.Components.Responses
ComponentResponses ==
    (<<"R", "1">> :> ResponseComponent(DataSchema(RefToSchema(<<"S", "1">>), Nil)))
 @@ (<<"R", "L">> :> ResponseComponent(DataSchema(<<>>, Ptr([ref |-> RefToSchema(<<"S", "1">>)]))))
 @@ (<<"R", "B">> :> ResponseComponent(DataSchema(RefToSchema(<<"S", "X">>), Nil)))

\* s.spec.Components.Schemas (the names; the generator reads the schemas)
ComponentSchemas == {<<"S", "1">>}

\* strings.ToUpper on the verbs of the document
Verbs == {"get", "delete", "patch", "post", "put"}
ToUpper(verb) ==
    CASE verb = "get" -> "GET"
      [] verb = "delete" -> "DELETE"
      [] verb = "patch" -> "PATCH"
      [] verb = "post" -> "POST"
      [] verb = "put" -> "PUT"
Methods == {ToUpper(v) : v \in Verbs}

(***************************************************************************)
(* initializeRouter                                                        *)
(***************************************************************************)

\* getRequestBodySchema: the operation's first media type and its schema
getRequestBodySchema(operation) ==
    IF operation.requestBody = Nil
    THEN [mediaType |-> Nil, schema |-> Nil]
    ELSE LET content == Deref(operation.requestBody).content
         IN  IF DOMAIN content = {} THEN [mediaType |-> Nil, schema |-> Nil]
             ELSE LET mt == CHOOSE m \in DOMAIN content : TRUE
                  IN  [mediaType |-> Ptr(mt), schema |-> content[mt].schema]

\* a heuristic that looks for the suffixes anywhere in the path
HasPrimaryID_Anywhere(path) ==
    \E i \in 1..Len(hasPrimaryIDSuffixes) : Index(path, hasPrimaryIDSuffixes[i]) # 0

\* the loop over hasPrimaryIDSuffixes
HasPrimaryID(path) ==
    \E i \in 1..Len(hasPrimaryIDSuffixes) : HasSuffix(path, hasPrimaryIDSuffixes[i])

\* the stubServerRoute built for one verb of one path
MakeRoute(path, verb, operation) ==
    LET compiled == compilePath(path)
        body == IF verb \in {"get", "delete"}
                THEN [mediaType |-> Nil, schema |-> Ptr(<<"q", "u", "e", "r", "y">>)]
                ELSE getRequestBodySchema(operation)
    IN  [hasPrimaryID     |-> HasPrimaryID(path),
         pattern          |-> compiled.pattern,
         operation        |-> operation,
         pathParamNames   |-> compiled.names,
         requestMediaType |-> body.mediaType,
         requestSchema    |-> body.schema]

\* one iteration of the loop over s.spec.Paths: the routes of path p are
\* appended to their verbs' lists
AppendRoutes(table, p) ==
    [m \in Methods |->
        LET vs == {v \in DOMAIN Paths[p].verbs : ToUpper(v) = m}
        IN  IF vs = {} THEN table[m]
            ELSE LET v == CHOOSE u \in vs : TRUE
                 IN  Append(table[m], MakeRoute(Paths[p].path, v, Paths[p].verbs[v]))]

\* the `less` of the sort
LessParams(a, b) == Len(a.pathParamNames) < Len(b.pathParamNames)

\* one pass of the insertion sort that sort.Slice runs on a short slice: e
\* moves left past every element it is less than
RECURSIVE InsertSorted(_, _)
InsertSorted(sorted, e) ==
    IF sorted = <<>> THEN <<e>>
    ELSE LET last == sorted[Len(sorted)]
         IN  IF LessParams(e, last)
             THEN Append(InsertSorted(SubSeq(sorted, 1, Len(sorted) - 1), e), last)
             ELSE Append(sorted, e)

\* a router that never sorts
SortRoutes_Unsorted(verbRoutes) == verbRoutes

RECURSIVE SortPrefix(_, _)
SortPrefix(list, n) ==
    IF n = 0 THEN <<>> ELSE InsertSorted(SortPrefix(list, n - 1), list[n])

\* sort.Slice(verbRoutes, ...)
SortRoutes(verbRoutes) == SortPrefix(verbRoutes, Len(verbRoutes))

(***************************************************************************)
(* routeRequest                                                            *)
(***************************************************************************)

\* a PathParamsMap whose primary ID is set whatever the route's flag says
BuildPathParams_AlwaysPrimary(route, firstMatch) ==
    LET numSecondaryIDs ==
            IF route.hasPrimaryID THEN Len(route.pathParamNames) - 1
                                  ELSE Len(route.pathParamNames)
    IN  [PrimaryID    |-> Ptr(firstMatch[Len(firstMatch)]),
         SecondaryIDs |-> [i \in 1..numSecondaryIDs |->
                             [ID |-> firstMatch[i + 1], Name |-> route.pathParamNames[i]]]]

\* a PathParamsMap that reads the captures from position 0, the whole match
BuildPathParams_OffByOne(route, firstMatch) ==
    LET numSecondaryIDs ==
            IF route.hasPrimaryID THEN Len(route.pathParamNames) - 1
                                  ELSE Len(route.pathParamNames)
    IN  [PrimaryID    |-> IF route.hasPrimaryID THEN Ptr(firstMatch[Len(firstMatch)])
                                                ELSE Nil,
         SecondaryIDs |-> [i \in 1..numSecondaryIDs |->
                             [ID |-> firstMatch[i], Name |-> route.pathParamNames[i]]]]

\* the PathParamsMap built from the first match of a route with parameters
BuildPathParams(route, firstMatch) ==
    LET numSecondaryIDs ==
            IF route.hasPrimaryID THEN Len(route.pathParamNames) - 1
                                  ELSE Len(route.pathParamNames)
    IN  [PrimaryID    |-> IF route.hasPrimaryID THEN Ptr(firstMatch[Len(firstMatch)])
                                                ELSE Nil,
         SecondaryIDs |-> [i \in 1..numSecondaryIDs |->
                             [ID |-> firstMatch[i + 1], Name |-> route.pathParamNames[i]]]]

\* a loop that gives up at the first route that does not match
RouteFrom_FirstOnly(verbRoutes, splitPath, i) ==
    IF i > Len(verbRoutes) \/ Len(splitPath) < 2
    THEN [route |-> Nil, pathParams |-> Nil]
    ELSE
      LET route == verbRoutes[i]
          matches == FindAllStringSubmatch(route.pattern, splitPath[2])
      IN  IF Len(matches) < 1 THEN [route |-> Nil, pathParams |-> Nil]
          ELSE IF Len(route.pathParamNames) < 1
            THEN [route |-> Ptr(route), pathParams |-> Nil]
            ELSE [route |-> Ptr(route),
                  pathParams |-> Ptr(BuildPathParams(route, matches[1]))]

\* the loop over verbRoutes, from index i on
RECURSIVE RouteFrom(_, _, _)
RouteFrom(verbRoutes, splitPath, i) ==
    IF i > Len(verbRoutes) THEN [route |-> Nil, pathParams |-> Nil]
    ELSE IF Len(splitPath) < 2 THEN RouteFrom(verbRoutes, splitPath, i + 1)
    ELSE
      LET route == verbRoutes[i]
          matches == FindAllStringSubmatch(route.pattern, splitPath[2])
      IN  IF Len(matches) < 1 THEN RouteFrom(verbRoutes, splitPath, i + 1)
          ELSE IF Len(route.pathParamNames) < 1
            THEN [route |-> Ptr(route), pathParams |-> Nil]
            ELSE [route |-> Ptr(route),
                  pathParams |-> Ptr(BuildPathParams(route, matches[1]))]

routeRequest(table, method, path) ==
    LET verbRoutes == IF method \in DOMAIN table THEN table[method] ELSE <<>>
    IN  RouteFrom(verbRoutes, SplitAfterN2(path, sV2), 1)

(***************************************************************************)
(* The checks of HandleRequest                                             *)
(***************************************************************************)

\* a loop without its break: the last declared response wins
LookupResponse_Last(operation) ==
    LET codes == <<"200", "201", "202">>
        found == {i \in 1..Len(codes) : codes[i] \in DOMAIN operation.responses}
    IN  IF found = {} THEN Nil
        ELSE LET i == CHOOSE f \in found : \A g \in found : f >= g
             IN  Ptr([code |-> codes[i], response |-> operation.responses[codes[i]]])

\* the loop over the status codes "200", "201", "202": the first response
\* the operation declares, nil when it declares none
LookupResponse(operation) ==
    LET codes == <<"200", "201", "202">>
        found == {i \in 1..Len(codes) : codes[i] \in DOMAIN operation.responses}
    IN  IF found = {} THEN Nil
        ELSE LET i == CHOOSE f \in found : \A g \in found : f <= g
             IN  Ptr([code |-> codes[i], response |-> operation.responses[codes[i]]])

\* The resolution of the response to the schema of its data: "ok" with the
\* schema's name and wrapWithList, "error" where the code answers 500, and
\* "panic" where it indexes past a slice or reads through a nil pointer.
ResolveResponse(response) ==
    LET panic == [outcome |-> "panic", schema |-> <<>>, wrapWithList |-> FALSE]
        responseName == SplitAfterN2(response.ref, sResponsesPrefix)
    IN  IF Len(responseName) < 2 THEN panic
        ELSE
          LET responseObject ==
                IF responseName[2] \in DOMAIN ComponentResponses
                THEN ComponentResponses[responseName[2]]
                ELSE [content |-> <<>>]
              responseContent ==
                IF sApplicationJSON \in DOMAIN responseObject.content
                THEN responseObject.content[sApplicationJSON]
                ELSE [schema |-> Nil]
          IN  IF responseContent.schema = Nil THEN panic
              ELSE
                LET properties == Deref(responseContent.schema).properties
                    data == IF "data" \in DOMAIN properties THEN properties["data"]
                                                            ELSE Nil
                IN  IF data = Nil THEN panic
                    ELSE IF Deref(data).ref = <<>> /\ Deref(data).items = Nil THEN panic
                    ELSE
                      LET wrapWithList == Deref(data).ref = <<>>
                          responseRef == IF wrapWithList
                                         THEN Deref(Deref(data).items).ref
                                         ELSE Deref(data).ref
                          schemaName == SplitAfterN2(responseRef, sSchemasPrefix)
                      IN  IF Len(schemaName) < 2 THEN panic
                          ELSE IF schemaName[2] \notin ComponentSchemas
                            THEN [outcome |-> "error", schema |-> <<>>,
                                  wrapWithList |-> wrapWithList]
                            ELSE [outcome |-> "ok", schema |-> schemaName[2],
                                  wrapWithList |-> wrapWithList]

\* a check that compares the header with its parameters left on
CheckContentType_WholeHeader(method, contentType, route) ==
    IF method # "DELETE" /\ method # "GET"
    THEN IF route.requestMediaType = Nil THEN "panic"
         ELSE IF contentType = <<>> THEN "contentTypeEmpty"
         ELSE IF contentType # Deref(route.requestMediaType)
           THEN "contentTypeMismatched"
           ELSE "ok"
    ELSE "ok"

\* The Content-Type check of validateAndCoerceRequest: "ok", or the message
\* of the error, or "panic" where it reads through a nil requestMediaType.
CheckContentType(method, contentType, route) ==
    IF method # "DELETE" /\ method # "GET"
    THEN IF route.requestMediaType = Nil THEN "panic"
         ELSE IF contentType = <<>> THEN "contentTypeEmpty"
         ELSE IF Split(contentType, <<";">>)[1] # Deref(route.requestMediaType)
           THEN "contentTypeMismatched"
           ELSE "ok"
    ELSE "ok"

\* a validateAndCoerceRequest that coerces before it checks the Content-Type
validateAndCoerceRequest_CoerceFirst(method, contentType, route, coerceErr, validateErr) ==
    LET ct == CheckContentType_WholeHeader(method, <<>>, route)
    IN  IF coerceErr
          THEN [stages |-> <<"coerce">>, outcome |-> "coercionError"]
        ELSE IF ct = "panic" THEN [stages |-> <<"coerce", "contentType">>, outcome |-> "panic"]
        ELSE IF ct # "ok" THEN [stages |-> <<"coerce", "contentType">>, outcome |-> ct]
        ELSE IF validateErr
          THEN [stages |-> <<"coerce", "contentType", "validate">>,
                outcome |-> "validationError"]
          ELSE [stages |-> <<"coerce", "contentType", "validate">>, outcome |-> "ok"]

\* validateAndCoerceRequest: the stages it ran and how it ended; coerceErr
\* and validateErr are what coercer.CoerceParams and the validator return.
validateAndCoerceRequest(method, contentType, route, coerceErr, validateErr) ==
    LET ct == CheckContentType(method, contentType, route)
    IN  IF ct = "panic" THEN [stages |-> <<"contentType">>, outcome |-> "panic"]
        ELSE IF ct # "ok" THEN [stages |-> <<"contentType">>, outcome |-> ct]
        ELSE IF coerceErr
          THEN [stages |-> <<"contentType", "coerce">>, outcome |-> "coercionError"]
        ELSE IF validateErr
          THEN [stages |-> <<"contentType", "coerce", "validate">>,
                outcome |-> "validationError"]
          ELSE [stages |-> <<"contentType", "coerce", "validate">>, outcome |-> "ok"]

\* createTelnyxError / createInternalServerError
typeInvalidRequestError == "invalid_request_error"
createTelnyxError(errorType, errorMessage) ==
    [kind |-> "error", type |-> errorType, message |-> errorMessage]
createInternalServerError == createTelnyxError(typeInvalidRequestError, "internalServerError")

\* w.Header().Set(key, value)
SetHeader(h, key, value) ==
    [k \in DOMAIN h \cup {key} |-> IF k = key THEN value ELSE h[k]]

\* writeResponse: the response put on the wire, with the headers set so far
writeResponse(h, status, data) ==
    [status |-> status,
     header |-> SetHeader(SetHeader(h, "Content-Type", sApplicationJSON),
                          "Telnyx-Mock-Version", <<"v">>),
     body   |-> data]

StatusOK == 200
StatusBadRequest == 400
StatusUnauthorized == 401
StatusNotFound == 404
StatusInternalServerError == 500

(***************************************************************************)
(* extractExpansions and parseExpansionLevel                               *)
(***************************************************************************)

\* decoded request values: a string, a list, a number, a map
Str(s) == [kind |-> "string", str |-> s]
List(l) == [kind |-> "list", elems |-> l]
Num == [kind |-> "number"]
Map == [kind |-> "map"]

\* the byte of a character, for the characters of the expansions
CharCode(c) ==
    CASE c = "*" -> 42
      [] c = "." -> 46
      [] c = "a" -> 97
      [] c = "b" -> 98
      [] c = "c" -> 99
      [] OTHER -> 128

\* s < t as Go compares strings
RECURSIVE LessString(_, _)
LessString(s, t) ==
    IF t = <<>> THEN FALSE
    ELSE IF s = <<>> THEN TRUE
    ELSE IF s[1] = t[1] THEN LessString(Tail(s), Tail(t))
    ELSE CharCode(s[1]) < CharCode(t[1])

\* sort.Strings
RECURSIVE InsertString(_, _)
InsertString(sorted, s) ==
    IF sorted = <<>> THEN <<s>>
    ELSE IF LessString(s, sorted[1]) THEN <<s>> \o sorted
    ELSE <<sorted[1]>> \o InsertString(Tail(sorted), s)

RECURSIVE SortStrings(_)
SortStrings(raw) ==
    IF raw = <<>> THEN <<>>
    ELSE InsertString(SortStrings(SubSeq(raw, 1, Len(raw) - 1)), raw[Len(raw)])

\* strings.Join(parts, ".")
RECURSIVE JoinDots(_)
JoinDots(parts) ==
    IF Len(parts) = 1 THEN parts[1]
    ELSE parts[1] \o <<".">> \o JoinDots(Tail(parts))

\* an ExpansionLevel without expansions
EmptyLevel == [expansions |-> <<>>, wildcard |-> FALSE]

\* the strings of the sequence that satisfy the test, in order
RECURSIVE SubexpansionsOf(_, _)
SubexpansionsOf(sorted, key) ==
    IF sorted = <<>> THEN <<>>
    ELSE LET parts == Split(sorted[1], <<".">>)
         IN  (IF Len(parts) > 1 /\ parts[1] = key THEN <<JoinDots(Tail(parts))>>
                                                   ELSE <<>>)
             \o SubexpansionsOf(Tail(sorted), key)

\* a parse in which a key asked for by itself keeps its empty level
RECURSIVE parseExpansionLevel_SingleWins(_)
parseExpansionLevel_SingleWins(raw) ==
    LET sorted == SortStrings(raw)
        parts(i) == Split(sorted[i], <<".">>)
        single == {parts(i)[1] : i \in {j \in 1..Len(sorted) :
                        Len(parts(j)) = 1 /\ parts(j)[1] # <<"*">>}}
        grouped == {parts(i)[1] : i \in {j \in 1..Len(sorted) : Len(parts(j)) > 1}}
    IN  [expansions |->
            [key \in single \cup grouped |->
                IF key \notin single
                THEN parseExpansionLevel_SingleWins(SubexpansionsOf(sorted, key))
                ELSE EmptyLevel],
         wildcard |-> \E i \in 1..Len(sorted) : sorted[i] = <<"*">>]

\* parseExpansionLevel: the level built from the raw expansions, sorted
RECURSIVE parseExpansionLevel(_)
parseExpansionLevel(raw) ==
    LET sorted == SortStrings(raw)
        parts(i) == Split(sorted[i], <<".">>)
        single == {parts(i)[1] : i \in {j \in 1..Len(sorted) :
                        Len(parts(j)) = 1 /\ parts(j)[1] # <<"*">>}}
        grouped == {parts(i)[1] : i \in {j \in 1..Len(sorted) : Len(parts(j)) > 1}}
    IN  [expansions |->
            [key \in single \cup grouped |->
                IF key \in grouped
                THEN parseExpansionLevel(SubexpansionsOf(sorted, key))
                ELSE EmptyLevel],
         wildcard |-> \E i \in 1..Len(sorted) : sorted[i] = <<"*">>]

\* the loop of extractExpansions over the list: the strings appended, or a
\* panic at the first element that is no string
RECURSIVE AssertStrings(_)
AssertStrings(expandArr) ==
    IF expandArr = <<>> THEN [outcome |-> "ok", expansions |-> <<>>]
    ELSE IF expandArr[1].kind # "string" THEN [outcome |-> "panic", expansions |-> <<>>]
    ELSE LET rest == AssertStrings(Tail(expandArr))
         IN  IF rest.outcome = "panic" THEN rest
             ELSE [outcome |-> "ok", expansions |-> <<expandArr[1].str>> \o rest.expansions]

\* extractExpansions: the level, nil or not, and the raw expansions, which
\* parseExpansionLevel has sorted in place
extractExpansions(data) ==
    IF "expand" \notin DOMAIN data
      THEN [outcome |-> "ok", level |-> Nil, raw |-> <<>>]
    ELSE IF data["expand"].kind = "string"
      THEN [outcome |-> "ok",
            level |-> Ptr(parseExpansionLevel(<<data["expand"].str>>)),
            raw |-> <<data["expand"].str>>]
    ELSE IF data["expand"].kind = "list"
      THEN LET strings == AssertStrings(data["expand"].elems)
           IN  IF strings.outcome = "panic"
               THEN [outcome |-> "panic", level |-> Nil, raw |-> <<>>]
               ELSE [outcome |-> "ok",
                     level |-> Ptr(parseExpansionLevel(strings.expansions)),
                     raw |-> SortStrings(strings.expansions)]
    ELSE [outcome |-> "ok", level |-> Nil, raw |-> <<>>]

(***************************************************************************)
(* The ID reflector of the generator: recordAndReplaceIDs and              *)
(* distributeReplacedIDs                                                   *)
(***************************************************************************)

sId == <<"i", "d">>
sObject == <<"o", "b", "j", "e", "c", "t">>
sUrl == <<"u", "r", "l">>

\* a decoded map[string]interface{}: its keys are Go strings
Object(fields) == [kind |-> "object", fields |-> fields]

SetField(data, key, value) == Object([data.fields EXCEPT ![key] = value])

\* PathParamsSecondaryID.appendReplacedID
appendReplacedID(secondaryID, replacedID) ==
    IF replacedID # <<>>
    THEN [secondaryID EXCEPT !.replacedIDs = Append(@, replacedID)]
    ELSE secondaryID

\* the secondary ID at which a loop over SecondaryIDs breaks: the first one
\* with the name, 0 when there is none
FirstNamed(pathParams, name) ==
    LET hits == {i \in 1..Len(pathParams.SecondaryIDs) :
                    pathParams.SecondaryIDs[i].Name = name}
    IN  IF hits = {} THEN 0
        ELSE CHOOSE i \in hits : \A j \in hits : i <= j

\* the body of such a loop: the old value is recorded at secondary ID i and
\* the field takes the ID of the request
ReplaceWithSecondary(pathParams, data, i, key, strVal) ==
    IF i = 0 THEN [pathParams |-> pathParams, data |-> data]
    ELSE [pathParams |-> [pathParams EXCEPT
                            !.SecondaryIDs[i] = appendReplacedID(@, strVal)],
          data |-> SetField(data, key, Str(pathParams.SecondaryIDs[i].ID))]

RECURSIVE recordAndReplaceIDsInternal(_, _, _, _)
RECURSIVE RecordElems(_, _, _, _)
RECURSIVE RecordFields(_, _, _, _, _)

\* the loop over dataSlice, from element i on
RecordElems(pathParams, elems, i, recurseLevel) ==
    IF i > Len(elems) THEN [pathParams |-> pathParams, data |-> elems]
    ELSE LET r == recordAndReplaceIDsInternal(pathParams, elems[i], Nil,
                                              recurseLevel + 1)
         IN  RecordElems(r.pathParams, [elems EXCEPT ![i] = r.data], i + 1,
                         recurseLevel)

\* the loop over dataMap, for the keys still to visit.  The order of a range
\* over a map is not fixed; as long as no secondary ID is named `object` the
\* visits read nothing that another visit writes, except the replaced ids,
\* which are only ever searched.
RecordFields(pathParams, data, keys, parentKey, recurseLevel) ==
    IF keys = {} THEN [pathParams |-> pathParams, data |-> data]
    ELSE
      LET key == CHOOSE k \in keys : TRUE
          val == data.fields[key]
          ok == val.kind = "string"
          strVal == IF ok THEN val.str ELSE <<>>
          objectOk == /\ sObject \in DOMAIN data.fields
                      /\ data.fields[sObject].kind = "string"
          byObject ==
              ReplaceWithSecondary(pathParams, data,
                  IF objectOk THEN FirstNamed(pathParams, data.fields[sObject].str)
                              ELSE 0,
                  sId, strVal)
          byParent ==
              ReplaceWithSecondary(byObject.pathParams, byObject.data,
                  IF parentKey # Nil THEN FirstNamed(pathParams, Deref(parentKey))
                                     ELSE 0,
                  sId, strVal)
          nested == recordAndReplaceIDsInternal(pathParams, val, Ptr(key),
                                                recurseLevel + 1)
          visited ==
              IF key = sId /\ ok THEN
                IF recurseLevel = 0 THEN
                  IF pathParams.PrimaryID # Nil
                  THEN [pathParams |-> [pathParams EXCEPT
                                            !.replacedPrimaryID = Ptr(strVal)],
                        data |-> SetField(data, sId,
                                          Str(Deref(pathParams.PrimaryID)))]
                  ELSE [pathParams |-> pathParams, data |-> data]
                ELSE byParent
              ELSE IF ok THEN
                ReplaceWithSecondary(pathParams, data,
                                     FirstNamed(pathParams, key), key, strVal)
              ELSE [pathParams |-> nested.pathParams,
                    data |-> SetField(data, key, nested.data)]
      IN  RecordFields(visited.pathParams, visited.data, keys \ {key}, parentKey,
                       recurseLevel)

\* the PathParamsMap after the pass, and the data after it
recordAndReplaceIDsInternal(pathParams, data, parentKey, recurseLevel) ==
    IF data.kind = "list" THEN
      LET r == RecordElems(pathParams, data.elems, 1, recurseLevel)
      IN  [pathParams |-> r.pathParams, data |-> List(r.data)]
    ELSE IF data.kind # "object" THEN [pathParams |-> pathParams, data |-> data]
    ELSE RecordFields(pathParams, data, DOMAIN data.fields, parentKey, recurseLevel)

recordAndReplaceIDs(pathParams, data) ==
    recordAndReplaceIDsInternal(pathParams, data, Nil, 0)

\* the first replaced id, of the first secondary ID that has one, among the
\* accepted ones: <<i, j>>, or <<0, 0>>
FirstReplaced(pathParams, accepted) ==
    LET all == UNION {{<<i, j>> : j \in 1..Len(pathParams.SecondaryIDs[i].replacedIDs)} :
                        i \in 1..Len(pathParams.SecondaryIDs)}
        hits == {ij \in all :
                    pathParams.SecondaryIDs[ij[1]].replacedIDs[ij[2]] \in accepted}
    IN  IF hits = {} THEN <<0, 0>>
        ELSE CHOOSE h \in hits :
                \A g \in hits : h[1] < g[1] \/ (h[1] = g[1] /\ h[2] <= g[2])

\* every replaced id of the secondary IDs
ReplacedIDs(pathParams) ==
    UNION {{pathParams.SecondaryIDs[i].replacedIDs[j] :
                j \in 1..Len(pathParams.SecondaryIDs[i].replacedIDs)} :
            i \in 1..Len(pathParams.SecondaryIDs)}

\* strings.Replace(s, old, new, 1) for an old that occurs in s
ReplaceFirst(s, old, new) ==
    LET i == Index(s, old)
    IN  SubSeq(s, 1, i - 1) \o new \o SubSeq(s, i + Len(old), Len(s))

distributeReplacedIDsInValue(pathParams, value) ==
    IF value.kind # "string" THEN [value |-> <<>>, ok |-> FALSE]
    ELSE IF /\ pathParams.replacedPrimaryID # Nil
            /\ value.str = Deref(pathParams.replacedPrimaryID)
      THEN [value |-> Deref(pathParams.PrimaryID), ok |-> TRUE]
    ELSE LET hit == FirstReplaced(pathParams, {value.str})
         IN  IF hit[1] = 0 THEN [value |-> <<>>, ok |-> FALSE]
             ELSE [value |-> pathParams.SecondaryIDs[hit[1]].ID, ok |-> TRUE]

distributeReplacedIDsInURL(pathParams, value) ==
    IF value.kind # "string" THEN [value |-> <<>>, ok |-> FALSE]
    ELSE IF /\ pathParams.replacedPrimaryID # Nil
            /\ Index(value.str, <<"/">> \o Deref(pathParams.replacedPrimaryID)
                                    \o <<"/">>) # 0
      THEN [value |-> ReplaceFirst(value.str,
                        <<"/">> \o Deref(pathParams.replacedPrimaryID) \o <<"/">>,
                        <<"/">> \o Deref(pathParams.PrimaryID) \o <<"/">>),
            ok |-> TRUE]
    ELSE LET inside == {replacedID \in ReplacedIDs(pathParams) :
                            Index(value.str, <<"/">> \o replacedID \o <<"/">>) # 0}
             hit == FirstReplaced(pathParams, inside)
         IN  IF hit[1] = 0 THEN [value |-> <<>>, ok |-> FALSE]
             ELSE [value |->
                     ReplaceFirst(value.str,
                        <<"/">> \o pathParams.SecondaryIDs[hit[1]].replacedIDs[hit[2]]
                                \o <<"/">>,
                        <<"/">> \o pathParams.SecondaryIDs[hit[1]].ID \o <<"/">>),
                   ok |-> TRUE]

\* the data after the pass, which leaves the PathParamsMap as it is
RECURSIVE distributeReplacedIDs(_, _)
distributeReplacedIDs(pathParams, data) ==
    IF data.kind = "list" THEN
      List([i \in 1..Len(data.elems) |->
                distributeReplacedIDs(pathParams, data.elems[i])])
    ELSE IF data.kind # "object" THEN data
    ELSE Object([key \in DOMAIN data.fields |->
            LET value == data.fields[key]
                inValue == distributeReplacedIDsInValue(pathParams, value)
                inURL == distributeReplacedIDsInURL(pathParams, value)
            IN  IF inValue.ok THEN Str(inValue.value)
                ELSE IF key = sUrl /\ inURL.ok THEN Str(inURL.value)
                ELSE distributeReplacedIDs(pathParams, value)])

\* the two passes as the generator runs them when params.PathParams is set
ReflectIDs(pathParams, data) ==
    IF pathParams = Nil THEN [pathParams |-> Nil, data |-> data]
    ELSE LET r == recordAndReplaceIDs(Deref(pathParams), data)
         IN  [pathParams |-> Ptr(r.pathParams),
              data |-> distributeReplacedIDs(r.pathParams, r.data)]

(***************************************************************************)
(* spec.Schema.UnmarshalJSON                                               *)
(***************************************************************************)

supportedSchemaFields ==
    <<"$ref", "additionalProperties", "allOf", "anyOf", "oneOf", "description",
      "discriminator", "enum", "example", "format", "items", "maxLength",
      "minLength", "maximum", "minimum", "default", "nullable", "pattern",
      "properties", "required", "title", "type", "readOnly", "writeOnly",
      "x-expandableFields", "x-expansionResources", "x-resourceId",
      "x-enum-descriptions", "x-enum-varnames", "x-stripeResource",
      "x-stripeBypassValidation">>

\* the JSON names of the fields of struct Schema
SchemaStructFields ==
    {"additionalProperties", "discriminator", "allOf", "anyOf", "oneOf", "enum",
     "format", "items", "maxLength", "minLength", "minimum", "maximum", "default",
     "nullable", "example", "pattern", "properties", "required", "type",
     "writeOnly", "readOnly", "$ref", "x-expandableFields", "x-expansionResources",
     "x-resourceId"}

\* a decoder that checks the fields of the object it is given and takes the
\* schemas nested in it as they are
UnmarshalJSON_TopLevelOnly(data) ==
    IF \E f \in DOMAIN data : \A i \in 1..Len(supportedSchemaFields) :
                                    supportedSchemaFields[i] # f
      THEN [err |-> TRUE, schema |-> <<>>]
    ELSE [err |-> FALSE, schema |-> [f \in DOMAIN data \cap SchemaStructFields |-> data[f]]]

\* UnmarshalJSON of a JSON object with well-typed values: the error, or the
\* Schema decoded; json.Unmarshal calls it again for every nested *Schema
RECURSIVE UnmarshalJSON(_)
UnmarshalJSON(data) ==
    IF \E f \in DOMAIN data : \A i \in 1..Len(supportedSchemaFields) :
                                    supportedSchemaFields[i] # f
      THEN [err |-> TRUE, schema |-> <<>>]
    ELSE
      LET fields == DOMAIN data \cap SchemaStructFields
          inList(f) == IF f \in fields THEN data[f] ELSE <<>>
          inMap == IF "properties" \in fields THEN data["properties"] ELSE <<>>
          inResources ==
              IF "x-expansionResources" \in fields
                    /\ "oneOf" \in DOMAIN data["x-expansionResources"]
              THEN data["x-expansionResources"]["oneOf"] ELSE <<>>
          nestedErr ==
              \/ "items" \in fields /\ UnmarshalJSON(data["items"]).err
              \/ \E n \in DOMAIN inMap : UnmarshalJSON(inMap[n]).err
              \/ \E f \in {"allOf", "anyOf", "oneOf"} :
                    \E i \in 1..Len(inList(f)) : UnmarshalJSON(inList(f)[i]).err
              \/ \E i \in 1..Len(inResources) : UnmarshalJSON(inResources[i]).err
      IN  IF nestedErr THEN [err |-> TRUE, schema |-> <<>>]
          ELSE [err |-> FALSE,
                schema |->
                  [f \in fields |->
                     CASE f = "items" -> UnmarshalJSON(data[f]).schema
                       [] f = "properties" ->
                            [n \in DOMAIN data[f] |-> UnmarshalJSON(data[f][n]).schema]
                       [] f \in {"allOf", "anyOf", "oneOf"} ->
                            [i \in 1..Len(data[f]) |-> UnmarshalJSON(data[f][i]).schema]
                       [] f = "x-expansionResources" ->
                            [OneOf |-> [i \in 1..Len(inResources) |->
                                            UnmarshalJSON(inResources[i]).schema]]
                       [] OTHER -> data[f]]]

(***************************************************************************)
(* spec.Schema.ResolveRef and spec.Response.ResolveRef                     *)
(***************************************************************************)

\* ResolveRef of a schema against components/schemas, and of a response
\* against components/responses: the two differ in the prefix they split
\* after.  "panic" where the code indexes past the slice of the split.
ResolveRef(receiver, prefix, components) ==
    IF receiver.Ref = <<>> THEN [outcome |-> "ok", resolved |-> Ptr(receiver)]
    ELSE LET schemaName == SplitAfterN2(receiver.Ref, prefix)
         IN  IF Len(schemaName) < 2 THEN [outcome |-> "panic", resolved |-> Nil]
             ELSE IF schemaName[2] \notin DOMAIN components
               THEN [outcome |-> "error", resolved |-> Nil]
               ELSE [outcome |-> "ok", resolved |-> Ptr(components[schemaName[2]])]

(***************************************************************************)
(* spec.Schema.FlattenAllOf.  Schemas are handled through pointers: heap    *)
(* gives the Schema at each address.  Of the fields of Schema the model     *)
(* keeps a scalar (Type), a slice (Required), a map of pointers             *)
(* (Properties) and AllOf.                                                  *)
(***************************************************************************)

\* var output Schema
ZeroSchema == [Type |-> "", Required |-> <<>>, Properties |-> <<>>, AllOf |-> <<>>]

\* mergo.Merge(dst, src) without options: a field of dst that is empty takes
\* the field of src, a slice is not appended to, and a map takes the keys of
\* src it does not hold.  For a key both maps hold, the schema dst points to
\* is merged with the one of src when deep is set, and left alone otherwise.
RECURSIVE Merge(_, _, _, _)
RECURSIVE MergeProperties(_, _, _, _, _)
Merge(heap, dst, src, deep) ==
    LET d == heap[dst]
        s == heap[src]
        filled ==
            [heap EXCEPT ![dst] =
                [Type       |-> IF d.Type = "" THEN s.Type ELSE d.Type,
                 Required   |-> IF d.Required = <<>> THEN s.Required ELSE d.Required,
                 Properties |-> [k \in DOMAIN d.Properties \cup DOMAIN s.Properties |->
                                    IF k \in DOMAIN d.Properties THEN d.Properties[k]
                                                                 ELSE s.Properties[k]],
                 AllOf      |-> IF d.AllOf = <<>> THEN s.AllOf ELSE d.AllOf]]
    IN  IF deep
        THEN MergeProperties(filled, d.Properties, s.Properties,
                             DOMAIN d.Properties \cap DOMAIN s.Properties, deep)
        ELSE filled

MergeProperties(heap, dstProperties, srcProperties, keys, deep) ==
    IF keys = {} THEN heap
    ELSE LET k == CHOOSE key \in keys : TRUE
         IN  MergeProperties(Merge(heap, dstProperties[k], srcProperties[k], deep),
                             dstProperties, srcProperties, keys \ {k}, deep)

\* a flatten that leaves the AllOf of its input nil
RECURSIVE flatten_NoRestore(_, _, _, _)
RECURSIVE FlattenMembers_NoRestore(_, _, _, _, _)
flatten_NoRestore(heap, output, input, deep) ==
    LET allOf == heap[input].AllOf
        merged == Merge([heap EXCEPT ![input].AllOf = <<>>], output, input, deep)
    IN  FlattenMembers_NoRestore(merged, output, allOf, 1, deep)

FlattenMembers_NoRestore(heap, output, allOf, i, deep) ==
    IF i > Len(allOf) THEN heap
    ELSE FlattenMembers_NoRestore(flatten_NoRestore(heap, output, allOf[i], deep),
                                  output, allOf, i + 1, deep)

\* a flatten that merges the members of its input and not the members of
\* those
RECURSIVE MergeMembers(_, _, _, _, _)
MergeMembers(heap, output, allOf, i, deep) ==
    IF i > Len(allOf) THEN heap
    ELSE MergeMembers(Merge(heap, output, allOf[i], deep), output, allOf, i + 1, deep)

flatten_DirectMembersOnly(heap, output, input, deep) ==
    LET allOf == heap[input].AllOf
        merged == Merge([heap EXCEPT ![input].AllOf = <<>>], output, input, deep)
    IN  MergeMembers([merged EXCEPT ![input].AllOf = allOf], output, allOf, 1, deep)

\* the closure flatten: the heap after flatten(output, input)
RECURSIVE flatten(_, _, _, _)
RECURSIVE FlattenMembers(_, _, _, _, _)
flatten(heap, output, input, deep) ==
    LET allOf == heap[input].AllOf
        merged == Merge([heap EXCEPT ![input].AllOf = <<>>], output, input, deep)
    IN  FlattenMembers([merged EXCEPT ![input].AllOf = allOf], output, allOf, 1, deep)

\* the loop over allOf, from member i on
FlattenMembers(heap, output, allOf, i, deep) ==
    IF i > Len(allOf) THEN heap
    ELSE FlattenMembers(flatten(heap, output, allOf[i], deep), output, allOf, i + 1, deep)

\* s.FlattenAllOf(), with the output allocated at the address output: the
\* heap after the call and the pointer returned
FlattenAllOf(heap, s, output, deep) ==
    [heap |-> flatten(heap @@ (output :> ZeroSchema), output, s, deep),
     output |-> output]

(***************************************************************************)
(* spec.BuildQuerySchema                                                   *)
(***************************************************************************)

ParameterPath == "path"
ParameterQuery == "query"
TypeObject == "object"
TypeString == "string"

\* a Parameter of an operation or of components/parameters
Parameter(in, name, required, schema, ref) ==
    [In |-> in, Name |-> name, Required |-> required, Schema |-> schema, Ref |-> ref]

\* schema.Properties[name] = paramSchema
SetProperty(properties, name, paramSchema) ==
    [k \in DOMAIN properties \cup {name} |->
        IF k = name THEN paramSchema ELSE properties[k]]

\* a loop that does not skip the parameters that are not query parameters
RECURSIVE BuildQueryLoop_AllParameters(_, _, _, _)
BuildQueryLoop_AllParameters(params, parameters, i, schema) ==
    IF i > Len(params) THEN [outcome |-> "ok", schema |-> Ptr(schema)]
    ELSE LET refParts == SplitAfterN2(params[i].Ref, sParametersPrefix)
             param == IF params[i].Ref # <<>> THEN parameters[refParts[2]]
                                              ELSE params[i]
             paramSchema == IF param.Schema = Nil THEN Ptr([Type |-> TypeObject])
                                                  ELSE param.Schema
         IN  IF params[i].Ref # <<>> /\ Len(refParts) < 2
               THEN [outcome |-> "panic", schema |-> Nil]
             ELSE IF params[i].Ref # <<>> /\ refParts[2] \notin DOMAIN parameters
               THEN [outcome |-> "error", schema |-> Nil]
             ELSE BuildQueryLoop_AllParameters(params, parameters, i + 1,
                    [schema EXCEPT
                        !.Properties = SetProperty(@, param.Name, paramSchema),
                        !.Required = IF param.Required THEN Append(@, param.Name)
                                                       ELSE @])

\* a loop that lists a parameter as required by the flag of the entry of the
\* operation, not of the parameter the entry refers to
RECURSIVE BuildQueryLoop_RequiredOfEntry(_, _, _, _)
BuildQueryLoop_RequiredOfEntry(params, parameters, i, schema) ==
    IF i > Len(params) THEN [outcome |-> "ok", schema |-> Ptr(schema)]
    ELSE LET refParts == SplitAfterN2(params[i].Ref, sParametersPrefix)
             param == IF params[i].Ref # <<>> THEN parameters[refParts[2]]
                                              ELSE params[i]
             paramSchema == IF param.Schema = Nil THEN Ptr([Type |-> TypeObject])
                                                  ELSE param.Schema
         IN  IF params[i].Ref # <<>> /\ Len(refParts) < 2
               THEN [outcome |-> "panic", schema |-> Nil]
             ELSE IF params[i].Ref # <<>> /\ refParts[2] \notin DOMAIN parameters
               THEN [outcome |-> "error", schema |-> Nil]
             ELSE IF param.In # ParameterQuery
               THEN BuildQueryLoop_RequiredOfEntry(params, parameters, i + 1, schema)
             ELSE BuildQueryLoop_RequiredOfEntry(params, parameters, i + 1,
                    [schema EXCEPT
                        !.Properties = SetProperty(@, param.Name, paramSchema),
                        !.Required = IF params[i].Required THEN Append(@, param.Name)
                                                           ELSE @])

\* the loop of BuildQuerySchema from the i-th parameter on, with the schema
\* built so far
RECURSIVE BuildQueryLoop(_, _, _, _)
BuildQueryLoop(params, parameters, i, schema) ==
    IF i > Len(params) THEN [outcome |-> "ok", schema |-> Ptr(schema)]
    ELSE LET refParts == SplitAfterN2(params[i].Ref, sParametersPrefix)
             param == IF params[i].Ref # <<>> THEN parameters[refParts[2]]
                                              ELSE params[i]
             paramSchema == IF param.Schema = Nil THEN Ptr([Type |-> TypeObject])
                                                  ELSE param.Schema
         IN  IF params[i].Ref # <<>> /\ Len(refParts) < 2
               THEN [outcome |-> "panic", schema |-> Nil]
             ELSE IF params[i].Ref # <<>> /\ refParts[2] \notin DOMAIN parameters
               THEN [outcome |-> "error", schema |-> Nil]
             ELSE IF param.In # ParameterQuery
               THEN BuildQueryLoop(params, parameters, i + 1, schema)
             ELSE BuildQueryLoop(params, parameters, i + 1,
                    [schema EXCEPT
                        !.Properties = SetProperty(@, param.Name, paramSchema),
                        !.Required = IF param.Required THEN Append(@, param.Name)
                                                       ELSE @])

\* BuildQuerySchema: operation.Parameters is Nil or Ptr of the list
BuildQuerySchema(operationParameters, parameters) ==
    LET schema == [AdditionalProperties |-> FALSE, Properties |-> <<>>,
                   Required |-> <<>>, Type |-> TypeObject]
    IN  IF operationParameters = Nil THEN [outcome |-> "ok", schema |-> Ptr(schema)]
        ELSE BuildQueryLoop(Deref(operationParameters), parameters, 1, schema)

(***************************************************************************)
(* The requests the model sends                                            *)
(***************************************************************************)

MaxKeyParts == 3
MaxPathSegs == 3
NumWorkers == 2

Workers == 1..NumWorkers

\* every text made of at most n of the pieces
RECURSIVE Concats(_, _)
Concats(pieces, n) ==
    IF n = 0 THEN {<<>>}
    ELSE LET shorter == Concats(pieces, n - 1)
         IN  shorter \cup {s \o p : s \in shorter, p \in pieces}

GoodAuth == sBearer \o <<" ">> \o sKEY \o <<"x">>
BadAuth == <<"B", "a", "s", "i", "c">> \o <<" ">> \o sKEY \o <<"x">>

\* Authorization headers: a scheme, a separator and a key
AuthHeaders ==
    {scheme \o sep \o key :
        scheme \in {sBearer, <<"B", "a", "s", "i", "c">>, <<>>},
        sep \in {<<" ">>, <<>>, <<" ", " ">>},
        key \in Concats({sKEY, <<"x">>, <<"K">>, <<" ">>}, MaxKeyParts)}

\* request paths: a prefix and at most MaxPathSegs segments
RequestPaths ==
    {prefix \o rest :
        prefix \in {sV2, <<>>, <<"/", "q", "/", "v", "2">>},
        rest \in Concats({<<"/", "x">>, <<"/", "f">>, <<"/", "a">>, <<"/", "y">>,
                          <<"/", "c", "a", "n", "c", "e", "l">>}, MaxPathSegs)}

\* request paths that reach each route of the document, and one that no
\* route matches
RoutedPaths ==
    {sV2 \o p : p \in {<<"/", "x", "/", "f">>, <<"/", "x", "/", "a">>,
                       <<"/", "x", "/", "a", "/", "y">>, <<"/", "x", "/", "y", "/", "a">>,
                       <<"/", "x", "/", "c", "a", "n", "c", "e", "l">>,
                       <<"/", "x", "/", "a", "/", "c", "a", "n", "c", "e", "l">>,
                       <<"/", "a">>}}

ContentTypes ==
    {<<>>, sApplicationJSON, sApplicationJSON \o <<";", "c">>,
     <<";">> \o sApplicationJSON, sApplicationJSON \o <<" ">>, <<"t", "/", "p">>}

\* the requests of each specification
PipelineInputs ==
    [methods |-> Methods, paths |-> RoutedPaths, auths |-> {GoodAuth, BadAuth, <<>>},
     contentTypes |-> ContentTypes, requestIds |-> {<<>>, <<"r", "1">>}]
RouteInputs ==
    [methods |-> Methods, paths |-> RequestPaths, auths |-> {GoodAuth},
     contentTypes |-> {sApplicationJSON}, requestIds |-> {<<>>}]
AuthInputs ==
    [methods |-> {"GET", "POST"},
     paths |-> {sV2 \o <<"/", "x", "/", "f">>, sV2 \o <<"/", "a">>},
     auths |-> AuthHeaders,
     contentTypes |-> {sApplicationJSON}, requestIds |-> {<<>>, <<"r", "1">>}]

\* the requests that workers handle at the same time
ConcurrentInputs ==
    [methods |-> {"GET", "DELETE"},
     paths |-> {sV2 \o <<"/", "x", "/", "c", "a", "n", "c", "e", "l">>},
     auths |-> {GoodAuth}, contentTypes |-> {sApplicationJSON},
     requestIds |-> {<<>>, <<"r", "1">>}]

\* parameters written in the operation itself
DirectParameters ==
    {Parameter(in, name, required, schema, <<>>) :
        in \in {ParameterQuery, ParameterPath}, name \in {"a", "b"},
        required \in BOOLEAN, schema \in {Nil, Ptr([Type |-> TypeString])}}

\* parameters that refer to components/parameters: to P, to Q, and one whose
\* reference lacks the prefix
RefParameters ==
    {Parameter("", "", FALSE, Nil, ref) :
        ref \in {sParametersPrefix \o <<"P">>, sParametersPrefix \o <<"Q">>, <<"P">>}}

\* components/parameters: empty, or with the one entry P
ComponentParameters ==
    {<<>>} \cup
    {[k \in {<<"P">>} |-> d] :
        d \in {Parameter(ParameterQuery, "a", TRUE, Ptr([Type |-> TypeString]), <<>>),
               Parameter(ParameterQuery, "b", FALSE, Nil, <<>>),
               Parameter(ParameterPath, "b", TRUE, Nil, <<>>)}}

MaxParams == 2

\* the parameter the entry of an operation stands for: itself, the entry of
\* components/parameters it names, or none
Stands(entry, parameters) ==
    IF entry.Ref = <<>> THEN Ptr(entry)
    ELSE IF \E k \in DOMAIN parameters : entry.Ref = sParametersPrefix \o k
      THEN Ptr(parameters[CHOOSE k \in DOMAIN parameters :
                              entry.Ref = sParametersPrefix \o k])
      ELSE Nil

\* OpenAPI: the parameters of an operation are unique by name and location
UniqueParameters(params, parameters) ==
    \A i, j \in 1..Len(params) :
        LET p == Stands(params[i], parameters)
            q == Stands(params[j], parameters)
        IN  (i # j /\ p # Nil /\ q # Nil) =>
                ~(Deref(p).Name = Deref(q).Name /\ Deref(p).In = Deref(q).In)

\* the calls of BuildQuerySchema: its operation's parameters, nil or a list
\* of at most MaxParams entries, and components/parameters
QueryCalls ==
    {[fn |-> "BuildQuerySchema",
      args |-> [operationParameters |-> ps, parameters |-> cs],
      returned |-> FALSE, result |-> <<>>] :
        ps \in {Nil} \cup
               {Ptr(l) : l \in UNION {[1..n -> DirectParameters \cup RefParameters] :
                                        n \in 0..MaxParams}},
        cs \in ComponentParameters}

MaxExpand == 2

\* the strings a client asks to expand
ExpandStrings ==
    {<<"a">>, <<"b">>, <<"*">>, <<"a", ".", "b">>, <<"b", ".", "*">>, <<>>}

\* decoded request data: without `expand`, or with a string, a list of at
\* most MaxExpand strings and other values, a number or a map under it
DecodedData ==
    {[k \in {"limit"} |-> Num]} \cup
    {[k \in {"expand"} |-> v] :
        v \in {Str(s) : s \in ExpandStrings} \cup {Num, Map} \cup
              {List(l) : l \in UNION {[1..n -> {Str(s) : s \in ExpandStrings} \cup {Num, Map}] :
                                        n \in 0..MaxExpand}}}

\* the decoded data of the requests of the pipeline
PipelineData ==
    {[k \in {"limit"} |-> Num], [k \in {"expand"} |-> Str(<<"a", ".", "b">>)],
     [k \in {"expand"} |-> List(<<Str(<<"a">>), Num>>)]}

\* the calls of parseExpansionLevel: at most MaxExpand requested strings of up
\* to three parts, in any order and with duplicates
ParseCalls ==
    {[fn |-> "parseExpansionLevel", args |-> [raw |-> raw],
      returned |-> FALSE, result |-> <<>>] :
        raw \in UNION {[1..n -> ExpandStrings \cup
                                  {<<"a", ".", "*">>, <<"*", ".", "a">>,
                                   <<"a", ".", "b", ".", "a">>, <<"a", ".", "b", ".", "*">>,
                                   <<"a", ".">>}] :
                            n \in 0..MaxExpand}}

\* the calls of extractExpansions
ExpansionCalls ==
    {[fn |-> "extractExpansions", args |-> [data |-> d],
      returned |-> FALSE, result |-> <<>>] : d \in DecodedData}

MaxDepth == 2

\* the fields of a JSON schema object that hold no schema
ScalarFields ==
    {<<>>,
     "type" :> "string",
     ("x-resourceId" :> "r") @@ ("x-expandableFields" :> <<"f">>),
     ("type" :> "object") @@ ("bogus" :> "1"),
     "description" :> "d"}

\* the field that holds the schema child
NestedField(kind, child) ==
    CASE kind = "items" -> "items" :> child
      [] kind = "properties" -> "properties" :> ("p" :> child)
      [] kind = "allOf" -> "allOf" :> <<child>>
      [] kind = "x-expansionResources" ->
            "x-expansionResources" :> (("oneOf" :> <<child>>) @@ ("extra" :> "1"))
      [] kind = "additionalProperties" -> "additionalProperties" :> child

\* JSON schema objects nested at most depth deep
RECURSIVE SchemaObjects(_)
SchemaObjects(depth) ==
    IF depth = 0 THEN ScalarFields
    ELSE ScalarFields \cup
         {scalars @@ NestedField(kind, child) :
            scalars \in ScalarFields,
            kind \in {"items", "properties", "allOf", "x-expansionResources",
                      "additionalProperties"},
            child \in SchemaObjects(depth - 1)}

\* the calls of UnmarshalJSON: the JSON object and the Schema decoded into
DecodeCalls ==
    {[fn |-> "UnmarshalJSON", args |-> [data |-> d, target |-> t],
      returned |-> FALSE, result |-> <<>>] :
        d \in SchemaObjects(MaxDepth), t \in {<<>>, "type" :> "old"}}

\* a field the generated object does not have
Absent == [kind |-> "absent"]

\* the object with the fields that are there
WithFields(fields) ==
    Object([key \in {k \in DOMAIN fields : fields[k].kind # "absent"} |-> fields[key]])

\* ids of the fixtures and of the request path
FixtureIDs == {<<"o">>, <<"s">>}

\* generated objects nested in the generated object
NestedObjects ==
    {WithFields((sId :> id) @@ (sObject :> object) @@ (<<"c">> :> c)) :
        id \in {Absent} \cup {Str(i) : i \in FixtureIDs},
        object \in {Absent, Str(<<"a">>)},
        c \in {Absent, Str(<<"o">>)}}

\* the generated values
GeneratedData ==
    {WithFields((sId :> id) @@ (<<"a">> :> a) @@ (<<"c">> :> c) @@ (sUrl :> url)
                    @@ (<<"n">> :> n)) :
        id \in {Absent} \cup {Str(i) : i \in FixtureIDs},
        a \in {Absent} \cup {Str(i) : i \in FixtureIDs}
                \cup {o \in NestedObjects : DOMAIN o.fields = {sId}},
        c \in {Absent} \cup {Str(i) : i \in FixtureIDs},
        url \in {Absent, Str(<<"/", "x", "/", "o", "/", "y">>)},
        n \in {Absent} \cup NestedObjects \cup {List(<<o>>) : o \in NestedObjects}}
    \cup {Str(<<"o">>)}

\* the PathParamsMap of a request, nothing replaced yet
RequestPathParams ==
    {Nil} \cup
    {Ptr([PrimaryID |-> primary, SecondaryIDs |-> secondary,
          replacedPrimaryID |-> Nil]) :
        primary \in {Nil, Ptr(<<"p">>)},
        secondary \in {<<>>} \cup
            {<<[ID |-> id, Name |-> <<"a">>, replacedIDs |-> <<>>]>> :
                id \in {<<"o">>, <<"q">>}}}

\* the runs of the reflector: result holds what each run so far returned
ReflectCalls ==
    {[fn |-> "ReflectIDs", args |-> [pathParams |-> pp, data |-> d],
      returned |-> FALSE, result |-> <<>>] :
        pp \in RequestPathParams, d \in GeneratedData}

\* how the path templates of the suffix check begin
TemplateStarts ==
    {<<"/", "x">>, <<"/", "x", "/", "{", "i", "d", "}">>, <<"/", "{", "a", "}", "/", "y">>}

\* and how they end: with each suffix of hasPrimaryIDSuffixes, and with
\* texts that are none
TemplateEnds ==
    {hasPrimaryIDSuffixes[i] : i \in 1..Len(hasPrimaryIDSuffixes)}
    \cup {<<>>,
          <<"/", "y">>,
          <<"/", "{", "i", "d", "}", "/", "y">>,
          <<"/", "{", "i", "d", "}", "x">>,
          <<"/", "{", "i", "d", "}", "/">>,
          <<"/", "c", "a", "n", "c", "e", "l", "x">>,
          <<"/", "c", "a", "n", "c", "e", "l", "/", "y">>,
          <<"/", "c", "a", "n", "c", "e", "l", "/">>,
          <<"c", "a", "n", "c", "e", "l">>,
          <<"/", "a", "v", "o", "i", "d">>,
          <<"/", "p", "a", "y", "s">>,
          <<"/", "P", "a", "y">>}

\* the routes initializeRouter builds, one path at a time
MakeRouteCalls ==
    {[fn |-> "MakeRoute", args |-> [path |-> start \o end],
      returned |-> FALSE, result |-> <<>>] :
        start \in TemplateStarts, end \in TemplateEnds}

\* path templates of at most MaxPathSegs segments: literal, parameter and
\* empty ones
CompiledTemplates ==
    Concats({<<"/">>, <<"/", "x">>, <<"/", "{", "a", "}">>,
             <<"/", "{", "i", "d", "}">>}, MaxPathSegs) \ {<<>>}

\* the texts the compiled patterns are matched against
MatchedTexts ==
    Concats({<<"/">>, <<"/", "x">>, <<"/", "1">>, <<".", "1">>, <<"?">>}, MaxPathSegs)

\* compilePath of a template, and a text for the pattern it returns
CompileCalls ==
    {[fn |-> "compilePath", args |-> [path |-> path, text |-> text],
      returned |-> FALSE, result |-> <<>>] :
        path \in CompiledTemplates, text \in MatchedTexts}

\* compilePath of templates whose literal segments hold a `.` or text around
\* a `{name}`, and texts of one or two segments for their patterns
LiteralCalls ==
    {[fn |-> "compilePath", args |-> [path |-> path, text |-> text],
      returned |-> FALSE, result |-> <<>>] :
        path \in {<<"/", "x">>,
                  <<"/", "a", ".", "b">>,
                  <<"/", "x", "/", "a", ".", "b">>,
                  <<"/", "a", ".", "b", "/", "{", "i", "d", "}">>,
                  <<"/", "x", "{", "a", "}">>,
                  <<"/", "x", "/", "{", "a", "}", "y">>,
                  <<"/", "x", "/", "{", "i", "d", "}">>},
        text \in Concats({<<"/", "x">>, <<"/", "a", ".", "b">>, <<"/", "a", "x", "b">>,
                          <<"/", "y">>, <<"/", "x", "1">>, <<"/", "1", "y">>}, 2)
                    \ {<<>>}}

\* the calls of ResolveRef: of a schema and of a response, without a ref,
\* with refs that name a component or none, and with refs of other forms
ResolveCalls ==
    {[fn |-> "ResolveRef",
      args |-> [receiver |-> [Ref |-> ref, Description |-> <<"r">>],
                prefix |-> prefix,
                components |-> [name \in names |-> [Ref |-> <<>>, Description |-> name]]],
      returned |-> FALSE, result |-> <<>>] :
        prefix \in {sSchemasPrefix, sResponsesPrefix},
        names \in {{}, {<<"S", "1">>}, {<<"S", "1">>, <<"b">>}},
        ref \in {<<>>} \cup
                {before \o name :
                    before \in {sSchemasPrefix, sResponsesPrefix, <<>>,
                                <<"#", "/", "d", "e", "f", "s", "/">>,
                                <<"x", ".", "j", "s", "o", "n">> \o sSchemasPrefix},
                    name \in {<<"S", "1">>, <<"S", "9">>, <<"a", "/", "b">>, <<>>}}}

\* a schema of the heap: a receiver or a member of an allOf, with or without
\* a type, a required name and a property, whose schema is at leaf
SchemaNodes(types, names, leaf) ==
    {[Type |-> type, Required |-> required, Properties |-> properties, AllOf |-> <<>>] :
        type \in types,
        required \in {<<>>} \cup {<<name>> : name \in names},
        properties \in {<<>>} \cup {name :> leaf : name \in names}}

\* the schema of a property
PropertySchema(type) == [ZeroSchema EXCEPT !.Type = type]

\* heaps with a receiver at address 1 and the members of its allOf and of
\* theirs at 2 and 3; the properties of the schema at n are at n + 3
SchemaHeaps ==
    LET leaves == (4 :> PropertySchema("")) @@ (5 :> PropertySchema(TypeString))
                    @@ (6 :> PropertySchema(TypeObject))
        receivers == SchemaNodes({"", TypeObject, TypeString}, {"p", "q"}, 4)
        seconds == SchemaNodes({"", TypeObject, TypeString}, {"p", "q"}, 5)
        thirds == SchemaNodes({"", TypeString}, {"q"}, 6)
    IN  {(1 :> r) @@ leaves : r \in receivers}
        \cup {(1 :> [r EXCEPT !.AllOf = <<2>>]) @@ (2 :> m) @@ leaves :
                r \in receivers, m \in seconds}
        \cup {(1 :> [r EXCEPT !.AllOf = <<2, 3>>]) @@ (2 :> m) @@ (3 :> n) @@ leaves :
                r \in receivers, m \in seconds, n \in thirds}
        \cup {(1 :> [r EXCEPT !.AllOf = <<2>>]) @@ (2 :> [m EXCEPT !.AllOf = <<3>>])
                    @@ (3 :> n) @@ leaves :
                r \in receivers, m \in seconds, n \in thirds}

\* the calls of FlattenAllOf on the receiver at address 1; result holds what
\* each call so far returned
FlattenCalls ==
    {[fn |-> "FlattenAllOf", args |-> [heap |-> heap, s |-> 1, deep |-> deep],
      returned |-> FALSE, result |-> <<>>] :
        heap \in SchemaHeaps, deep \in BOOLEAN}

NoInputs ==
    [methods |-> {}, paths |-> {}, auths |-> {}, contentTypes |-> {}, requestIds |-> {}]

(***************************************************************************)
(* State                                                                  *)
(***************************************************************************)

VARIABLES
    routes,      \* s.routes: method -> the routes of that verb
    pending,     \* initializeRouter: the paths its loop has yet to visit
    booted,      \* initializeRouter has returned
    inputs,      \* the requests clients send
    active,      \* the workers that take requests
    pc,          \* per worker: the stage of HandleRequest it is at
    req,         \* per worker: the request r
    matched,     \* per worker: route, as routeRequest returned it
    pathParams,  \* per worker: pathParams, as routeRequest returned it
    selected,    \* per worker: the response looked up, schema, wrapWithList
    header,      \* per worker: w.Header()
    out,         \* per worker: the responses written
    log,         \* per worker: the stages run for the request
    generated,   \* per worker: the GenerateParams handed to the generator
    requestData, \* per worker: the decoded data param.ParseParams returned
    expansions,  \* per worker: the ExpansionLevel extractExpansions returned
    call         \* a call of a function of the packages: name, arguments, result

vars == <<routes, pending, booted, inputs, active, pc, req, matched, pathParams,
          selected, header, out, log, generated, requestData, expansions, call>>

router == <<routes, pending, booted, inputs, active>>

NoRequest == [method |-> "", path |-> <<>>, auth |-> <<>>, contentType |-> <<>>,
              requestId |-> <<>>]
NoSelection == [code |-> "", schema |-> <<>>, wrapWithList |-> FALSE]
NoCall == [fn |-> "", args |-> <<>>, returned |-> FALSE, result |-> <<>>]

InitWith(in, act, calls) ==
    /\ routes = [m \in Methods |-> <<>>]
    /\ pending = 1..Len(Paths)
    /\ booted = FALSE
    /\ inputs = in
    /\ active = act
    /\ pc = [w \in Workers |-> "idle"]
    /\ req = [w \in Workers |-> NoRequest]
    /\ matched = [w \in Workers |-> Nil]
    /\ pathParams = [w \in Workers |-> Nil]
    /\ selected = [w \in Workers |-> NoSelection]
    /\ header = [w \in Workers |-> <<>>]
    /\ out = [w \in Workers |-> <<>>]
    /\ log = [w \in Workers |-> <<>>]
    /\ generated = [w \in Workers |-> Nil]
    /\ requestData = [w \in Workers |-> Nil]
    /\ expansions = [w \in Workers |-> Nil]
    /\ call \in calls

Init == InitWith(PipelineInputs, {1}, {NoCall})

\* the functions of package spec called by themselves, as their tests do

InitQuery ==
    InitWith(NoInputs, {},
             {c \in QueryCalls :
                c.args.operationParameters = Nil
                \/ UniqueParameters(Deref(c.args.operationParameters), c.args.parameters)})

(***************************************************************************)
(* initializeRouter                                                        *)
(***************************************************************************)

\* one iteration of the loop over the paths map, which Go visits in any order
AppendPath(p) ==
    /\ ~booted
    /\ p \in pending
    /\ routes' = AppendRoutes(routes, p)
    /\ pending' = pending \ {p}
    /\ UNCHANGED <<call, requestData, expansions, booted, inputs, active, pc, req, matched, pathParams, selected,
                   header, out, log, generated>>

\* the loop that sorts every verb's routes, and the return
SortAllRoutes ==
    /\ ~booted
    /\ pending = {}
    /\ routes' = [m \in Methods |-> SortRoutes(routes[m])]
    /\ booted' = TRUE
    /\ UNCHANGED <<call, requestData, expansions, pending, inputs, active, pc, req, matched, pathParams, selected,
                   header, out, log, generated>>

(***************************************************************************)
(* HandleRequest, stage by stage                                           *)
(***************************************************************************)

\* the handler ends with the response written
Respond(w, status, data) ==
    /\ out' = [out EXCEPT ![w] = Append(@, writeResponse(header'[w], status, data))]
    /\ pc' = [pc EXCEPT ![w] = "done"]

\* net/http calls HandleRequest with a request
Receive(w) ==
    /\ booted
    /\ w \in active
    /\ pc[w] = "idle"
    /\ \E m \in inputs.methods, p \in inputs.paths, a \in inputs.auths,
          ct \in inputs.contentTypes, id \in inputs.requestIds :
            req' = [req EXCEPT ![w] = [method |-> m, path |-> p, auth |-> a,
                                       contentType |-> ct, requestId |-> id]]
    /\ pc' = [pc EXCEPT ![w] = "auth"]
    /\ UNCHANGED <<router, call, requestData, expansions, matched, pathParams, selected, header, out, log, generated>>

\* an authorization step that sets the two headers before it checks the key
CheckAuth_HeadersFirst(w) ==
    /\ pc[w] = "auth"
    /\ log' = [log EXCEPT ![w] = Append(@, "auth")]
    /\ header' = [header EXCEPT ![w] =
                    SetHeader(SetHeader(@, "X-Request-Id", sReq123),
                              "Request-Id", req[w].requestId)]
    /\ IF ~validateAuth(req[w].auth)
       THEN Respond(w, StatusUnauthorized,
                    createTelnyxError(typeInvalidRequestError, "invalidAuthorization"))
       ELSE /\ pc' = [pc EXCEPT ![w] = "route"]
            /\ out' = out
    /\ UNCHANGED <<router, call, requestData, expansions, req, matched, pathParams, selected, generated>>

\* validateAuth, the 401, and the two headers of every other response
CheckAuth(w) ==
    /\ pc[w] = "auth"
    /\ log' = [log EXCEPT ![w] = Append(@, "auth")]
    /\ IF ~validateAuth(req[w].auth)
       THEN /\ header' = header
            /\ Respond(w, StatusUnauthorized,
                       createTelnyxError(typeInvalidRequestError, "invalidAuthorization"))
       ELSE /\ header' = [header EXCEPT ![w] =
                            SetHeader(SetHeader(@, "X-Request-Id", sReq123),
                                      "Request-Id", req[w].requestId)]
            /\ pc' = [pc EXCEPT ![w] = "route"]
            /\ out' = out
    /\ UNCHANGED <<router, call, requestData, expansions, req, matched, pathParams, selected, generated>>

\* a routing step that keeps the matched route and its PathParams in one
\* place shared by all requests
Route_SharedRoute(w) ==
    /\ pc[w] = "route"
    /\ log' = [log EXCEPT ![w] = Append(@, "route")]
    /\ header' = header
    /\ LET r == routeRequest(routes, req[w].method, req[w].path)
       IN  /\ matched' = [v \in Workers |-> r.route]
           /\ pathParams' = [v \in Workers |-> r.pathParams]
           /\ IF r.route = Nil
              THEN Respond(w, StatusNotFound,
                           createTelnyxError(typeInvalidRequestError, "invalidRoute"))
              ELSE /\ pc' = [pc EXCEPT ![w] = "lookup"]
                   /\ out' = out
    /\ UNCHANGED <<router, call, requestData, expansions, req, selected, generated>>

\* routeRequest and the 404
Route(w) ==
    /\ pc[w] = "route"
    /\ log' = [log EXCEPT ![w] = Append(@, "route")]
    /\ header' = header
    /\ LET r == routeRequest(routes, req[w].method, req[w].path)
       IN  /\ matched' = [matched EXCEPT ![w] = r.route]
           /\ pathParams' = [pathParams EXCEPT ![w] = r.pathParams]
           /\ IF r.route = Nil
              THEN Respond(w, StatusNotFound,
                           createTelnyxError(typeInvalidRequestError, "invalidRoute"))
              ELSE /\ pc' = [pc EXCEPT ![w] = "lookup"]
                   /\ out' = out
    /\ UNCHANGED <<router, call, requestData, expansions, req, selected, generated>>

\* the response of the first status code among 200, 201, 202
Lookup(w) ==
    /\ pc[w] = "lookup"
    /\ log' = [log EXCEPT ![w] = Append(@, "lookup")]
    /\ header' = header
    /\ LET found == LookupResponse(Deref(matched[w]).operation)
       IN  IF found = Nil
           THEN /\ Respond(w, StatusInternalServerError, createInternalServerError)
                /\ selected' = selected
           ELSE /\ selected' = [selected EXCEPT ![w].code = Deref(found).code]
                /\ pc' = [pc EXCEPT ![w] = "resolve"]
                /\ out' = out
    /\ UNCHANGED <<router, call, requestData, expansions, req, matched, pathParams, generated>>

\* the resolution of the response to its data schema
Resolve(w) ==
    /\ pc[w] = "resolve"
    /\ log' = [log EXCEPT ![w] = Append(@, "resolve")]
    /\ header' = header
    /\ LET response == Deref(matched[w]).operation.responses[selected[w].code]
           r == ResolveResponse(response)
       IN  CASE r.outcome = "panic" ->
                  /\ pc' = [pc EXCEPT ![w] = "panicked"]
                  /\ UNCHANGED <<out, selected>>
             [] r.outcome = "error" ->
                  /\ Respond(w, StatusInternalServerError, createInternalServerError)
                  /\ selected' = selected
             [] r.outcome = "ok" ->
                  /\ selected' = [selected EXCEPT ![w].schema = r.schema,
                                                  ![w].wrapWithList = r.wrapWithList]
                  /\ pc' = [pc EXCEPT ![w] = "parse"]
                  /\ out' = out
    /\ UNCHANGED <<router, call, requestData, expansions, req, matched, pathParams, generated>>

\* param.ParseParams, which returns the decoded data or an error
Parse(w) ==
    /\ pc[w] = "parse"
    /\ log' = [log EXCEPT ![w] = Append(@, "parse")]
    /\ header' = header
    /\ \E err \in BOOLEAN, data \in PipelineData :
          /\ requestData' = [requestData EXCEPT ![w] = IF err THEN Nil ELSE Ptr(data)]
          /\ IF err
             THEN Respond(w, StatusBadRequest,
                          createTelnyxError(typeInvalidRequestError, "parseError"))
             ELSE /\ pc' = [pc EXCEPT ![w] = "validate"]
                  /\ out' = out
    /\ UNCHANGED <<router, call, expansions, req, matched, pathParams, selected, generated>>

\* validateAndCoerceRequest
Validate(w) ==
    /\ pc[w] = "validate"
    /\ header' = header
    /\ \E coerceErr \in BOOLEAN, validateErr \in BOOLEAN :
          LET v == validateAndCoerceRequest(req[w].method, req[w].contentType,
                                            Deref(matched[w]), coerceErr, validateErr)
          IN  /\ log' = [log EXCEPT ![w] = @ \o v.stages]
              /\ CASE v.outcome = "panic" ->
                        /\ pc' = [pc EXCEPT ![w] = "panicked"]
                        /\ out' = out
                   [] v.outcome = "ok" ->
                        /\ pc' = [pc EXCEPT ![w] = "expand"]
                        /\ out' = out
                   [] OTHER ->
                        Respond(w, StatusBadRequest,
                                createTelnyxError(typeInvalidRequestError, v.outcome))
    /\ UNCHANGED <<router, call, requestData, expansions, req, matched, pathParams, selected, generated>>

\* extractExpansions
Expand(w) ==
    /\ pc[w] = "expand"
    /\ log' = [log EXCEPT ![w] = Append(@, "expand")]
    /\ LET e == extractExpansions(Deref(requestData[w]))
       IN  IF e.outcome = "panic"
           THEN /\ pc' = [pc EXCEPT ![w] = "panicked"]
                /\ expansions' = expansions
           ELSE /\ pc' = [pc EXCEPT ![w] = "generate"]
                /\ expansions' = [expansions EXCEPT ![w] = e.level]
    /\ UNCHANGED <<router, call, requestData, req, matched, pathParams, selected, header, out, generated>>

\* generator.Generate, which returns the response data or an error, and the
\* response that ends the handler
Generate(w) ==
    /\ pc[w] = "generate"
    /\ log' = [log EXCEPT ![w] = Append(@, "generate")]
    /\ header' = header
    /\ generated' = [generated EXCEPT ![w] =
                        Ptr([Expansions    |-> expansions[w],
                             PathParams    |-> pathParams[w],
                             RequestData   |-> requestData[w],
                             RequestMethod |-> req[w].method,
                             RequestPath   |-> req[w].path,
                             Schema        |-> selected[w].schema,
                             WrapWithList  |-> selected[w].wrapWithList])]
    /\ \E err \in BOOLEAN :
          IF err
          THEN Respond(w, StatusInternalServerError, createInternalServerError)
          ELSE Respond(w, StatusOK, [kind |-> "data"])
    /\ UNCHANGED <<router, call, requestData, expansions, req, matched, pathParams, selected>>

\* HandleRequest has returned (or net/http has recovered its panic); the
\* worker takes the next request with fresh locals
Return(w) ==
    /\ pc[w] \in {"done", "panicked"}
    /\ pc' = [pc EXCEPT ![w] = "idle"]
    /\ req' = [req EXCEPT ![w] = NoRequest]
    /\ matched' = [matched EXCEPT ![w] = Nil]
    /\ pathParams' = [pathParams EXCEPT ![w] = Nil]
    /\ selected' = [selected EXCEPT ![w] = NoSelection]
    /\ header' = [header EXCEPT ![w] = <<>>]
    /\ out' = [out EXCEPT ![w] = <<>>]
    /\ log' = [log EXCEPT ![w] = <<>>]
    /\ generated' = [generated EXCEPT ![w] = Nil]
    /\ requestData' = [requestData EXCEPT ![w] = Nil]
    /\ expansions' = [expansions EXCEPT ![w] = Nil]
    /\ UNCHANGED <<router, call>>

Next ==
    \/ \E p \in 1..Len(Paths) : AppendPath(p)
    \/ SortAllRoutes
    \/ \E w \in Workers : Receive(w)
    \/ \E w \in Workers : CheckAuth(w)
    \/ \E w \in Workers : Route(w)
    \/ \E w \in Workers : Lookup(w)
    \/ \E w \in Workers : Resolve(w)
    \/ \E w \in Workers : Parse(w)
    \/ \E w \in Workers : Validate(w)
    \/ \E w \in Workers : Expand(w)
    \/ \E w \in Workers : Generate(w)
    \/ \E w \in Workers : Return(w)

\* the pipeline's variables, which a call of a function by itself leaves alone
pipeline == <<router, pc, req, matched, pathParams, selected, header, out, log, generated,
              requestData, expansions>>

\* BuildQuerySchema runs and returns
CallBuildQuerySchema ==
    /\ call.fn = "BuildQuerySchema"
    /\ ~call.returned
    /\ call' = [call EXCEPT
                    !.returned = TRUE,
                    !.result = BuildQuerySchema(call.args.operationParameters,
                                                call.args.parameters)]
    /\ UNCHANGED pipeline

\* extractExpansions runs and returns, or panics
CallExtractExpansions ==
    /\ call.fn = "extractExpansions"
    /\ ~call.returned
    /\ call' = [call EXCEPT !.returned = TRUE,
                            !.result = extractExpansions(call.args.data)]
    /\ UNCHANGED pipeline

\* parseExpansionLevel runs and returns the level
CallParseExpansionLevel ==
    /\ call.fn = "parseExpansionLevel"
    /\ ~call.returned
    /\ call' = [call EXCEPT !.returned = TRUE,
                            !.result = parseExpansionLevel(call.args.raw)]
    /\ UNCHANGED pipeline

\* ResolveRef runs and returns, or panics
CallResolveRef ==
    /\ call.fn = "ResolveRef"
    /\ ~call.returned
    /\ call' = [call EXCEPT
                  !.returned = TRUE,
                  !.result = ResolveRef(call.args.receiver, call.args.prefix,
                                        call.args.components)]
    /\ UNCHANGED pipeline

\* s.FlattenAllOf() runs; its output is allocated at address 7
CallFlattenAllOf ==
    /\ call.fn = "FlattenAllOf"
    /\ call.result = <<>>
    /\ call' = [call EXCEPT
                  !.result = <<FlattenAllOf(call.args.heap, call.args.s, 7,
                                            call.args.deep)>>]
    /\ UNCHANGED pipeline

\* FlattenAllOf runs on the schema the first call returned; its output is
\* allocated at address 8
CallFlattenAllOfAgain ==
    /\ call.fn = "FlattenAllOf"
    /\ Len(call.result) = 1
    /\ call' = [call EXCEPT
                  !.returned = TRUE,
                  !.result = Append(@, FlattenAllOf(call.result[1].heap,
                                                    call.result[1].output, 8,
                                                    call.args.deep))]
    /\ UNCHANGED pipeline

\* UnmarshalJSON runs and returns: *s is assigned only when nothing failed
CallUnmarshalJSON ==
    /\ call.fn = "UnmarshalJSON"
    /\ ~call.returned
    /\ LET r == UnmarshalJSON(call.args.data)
       IN  call' = [call EXCEPT
                        !.returned = TRUE,
                        !.result = [err |-> r.err,
                                    target |-> IF r.err THEN call.args.target
                                                        ELSE r.schema]]
    /\ UNCHANGED pipeline

\* the generator runs the two passes over the value it generated
CallReflectIDs ==
    /\ call.fn = "ReflectIDs"
    /\ call.result = <<>>
    /\ call' = [call EXCEPT
                  !.result = <<ReflectIDs(call.args.pathParams, call.args.data)>>]
    /\ UNCHANGED pipeline

\* the two passes run once more, over what they returned and with the
\* PathParamsMap as they left it
CallReflectIDsAgain ==
    /\ call.fn = "ReflectIDs"
    /\ Len(call.result) = 1
    /\ call' = [call EXCEPT
                  !.returned = TRUE,
                  !.result = Append(@, ReflectIDs(call.result[1].pathParams,
                                                  call.result[1].data))]
    /\ UNCHANGED pipeline

\* initializeRouter builds the route of a get operation of the path
CallMakeRoute ==
    /\ call.fn = "MakeRoute"
    /\ ~call.returned
    /\ call' = [call EXCEPT
                  !.returned = TRUE,
                  !.result = MakeRoute(call.args.path, "get",
                                       Operation("get", <<>>, Nil))]
    /\ UNCHANGED pipeline

\* initializeRouter compiles the path, and routeRequest matches a text
\* against the pattern
CallCompilePath ==
    /\ call.fn = "compilePath"
    /\ ~call.returned
    /\ LET compiled == compilePath(call.args.path)
       IN  call' = [call EXCEPT
                      !.returned = TRUE,
                      !.result = [pattern |-> compiled.pattern,
                                  names |-> compiled.names,
                                  matches |-> FindAllStringSubmatch(compiled.pattern,
                                                                    call.args.text)]]
    /\ UNCHANGED pipeline


Spec == Init /\ [][Next]_vars
SpecConcurrent == InitWith(ConcurrentInputs, Workers, {NoCall}) /\ [][Next]_vars
SpecDecode == InitWith(NoInputs, {}, DecodeCalls) /\ [][CallUnmarshalJSON]_vars
SpecReflect ==
    InitWith(NoInputs, {}, ReflectCalls) /\ [][CallReflectIDs \/ CallReflectIDsAgain]_vars
SpecSuffix == InitWith(NoInputs, {}, MakeRouteCalls) /\ [][CallMakeRoute]_vars
SpecLiteral == InitWith(NoInputs, {}, LiteralCalls) /\ [][CallCompilePath]_vars
SpecParse == InitWith(NoInputs, {}, ParseCalls) /\ [][CallParseExpansionLevel]_vars
SpecResolve == InitWith(NoInputs, {}, ResolveCalls) /\ [][CallResolveRef]_vars
SpecFlatten ==
    InitWith(NoInputs, {}, FlattenCalls) /\ [][CallFlattenAllOf \/ CallFlattenAllOfAgain]_vars
SpecCompile == InitWith(NoInputs, {}, CompileCalls) /\ [][CallCompilePath]_vars
SpecQuery == InitQuery /\ [][CallBuildQuerySchema]_vars
SpecExpand == InitWith(NoInputs, {}, ExpansionCalls) /\ [][CallExtractExpansions]_vars
SpecRoute == InitWith(RouteInputs, {1}, {NoCall}) /\ [][Next]_vars
SpecAuth == InitWith(AuthInputs, {1}, {NoCall}) /\ [][Next]_vars

(***************************************************************************)
(* Properties                                                              *)
(***************************************************************************)

\* the handler of worker w has ended, with a response or by a panic
Ended(w) == pc[w] \in {"done", "panicked"}
\* the handler of worker w has written a response with this status
Answered(w, status) == Len(out[w]) >= 1 /\ out[w][1].status = status

\* the text routeRequest matches patterns against: what follows the first
\* `/v2` of the request path; nil when the path holds no `/v2`
PathToMatch(path) ==
    LET splitPath == SplitAfterN2(path, sV2)
    IN  IF Len(splitPath) < 2 THEN Nil ELSE Ptr(splitPath[2])

\* the compiled pattern of the route matches the request path
RouteMatches(route, path) ==
    /\ PathToMatch(path) # Nil
    /\ FindAllStringSubmatch(route.pattern, Deref(PathToMatch(path))) # <<>>

\* the routes of the request's method
RoutesOf(method) == IF method \in DOMAIN routes THEN routes[method] ELSE <<>>

\* C1: an authorized request is answered 404, with an error of type
\* invalid_request_error, exactly when no route of its method has a pattern
\* that matches its path; no handler that found a route answers 404.
C1_NotFoundExactlyWhenNoRoute ==
    \A w \in Workers :
        LET noRoute == \A i \in 1..Len(RoutesOf(req[w].method)) :
                            ~RouteMatches(RoutesOf(req[w].method)[i], req[w].path)
        IN  /\ Answered(w, StatusNotFound) =>
                /\ noRoute
                /\ out[w][1].body.kind = "error"
                /\ out[w][1].body.type = "invalid_request_error"
            /\ (Ended(w) /\ validateAuth(req[w].auth) /\ noRoute)
                    => Answered(w, StatusNotFound)

\* a 404 for a path that no route of a method with routes matches
C1_Witness ==
    \E w \in Workers :
        /\ Answered(w, StatusNotFound)
        /\ Len(RoutesOf(req[w].method)) >= 2
        /\ validateAuth(req[w].auth)

\* the header is the word Bearer, one space, and a key without a space that
\* begins with KEY and goes on for at least one more character
WellFormedAuth(auth) ==
    LET lead == sBearer \o <<" ">> \o sKEY
    IN  /\ HasPrefix(auth, lead)
        /\ Len(auth) > Len(lead)
        /\ \A i \in (Len(lead) + 1)..Len(auth) : auth[i] # " "

\* C2: only a well-formed Authorization header gets past validateAuth; every
\* other header is answered 401 and its request is never routed.
C2_OnlyWellFormedAccepted ==
    \A w \in Workers :
        ~WellFormedAuth(req[w].auth) =>
            /\ pc[w] \notin {"route", "lookup", "resolve", "parse", "validate",
                             "expand", "generate", "panicked"}
            /\ pc[w] = "done" => Answered(w, StatusUnauthorized)

\* C3: every header `Bearer KEY<s>` with a non-empty <s> gets past
\* validateAuth: no such request is answered 401.
C3_EveryWellFormedAccepted ==
    \A w \in Workers :
        WellFormedAuth(req[w].auth) => ~Answered(w, StatusUnauthorized)

\* the routes are in ascending order of their number of path parameters
Ascending(verbRoutes) ==
    \A i, j \in 1..Len(verbRoutes) :
        i < j => Len(verbRoutes[i].pathParamNames) <= Len(verbRoutes[j].pathParamNames)

\* C4: once initializeRouter has returned, every verb's routes are in
\* ascending order of parameter count, and the route routeRequest returns is
\* the first in list order that matches: of two matching routes with
\* different parameter counts it is never the one with more parameters.
C4_FewestParametersWins ==
    booted =>
        /\ \A m \in Methods : Ascending(routes[m])
        /\ \A w \in Workers :
              matched[w] # Nil =>
                LET rs == RoutesOf(req[w].method)
                    first == CHOOSE i \in 1..Len(rs) :
                                /\ RouteMatches(rs[i], req[w].path)
                                /\ \A j \in 1..(i - 1) : ~RouteMatches(rs[j], req[w].path)
                IN  /\ \E i \in 1..Len(rs) : RouteMatches(rs[i], req[w].path)
                    /\ Deref(matched[w]) = rs[first]
                    /\ \A i \in 1..Len(rs) :
                          RouteMatches(rs[i], req[w].path) =>
                            Len(Deref(matched[w]).pathParamNames)
                                <= Len(rs[i].pathParamNames)

\* /x/f is requested: the literal route and /x/{id} both match, and the
\* literal route is the one returned
C4_Witness ==
    \E w \in Workers :
        /\ matched[w] # Nil
        /\ Deref(matched[w]).operation.operationID = "listX"
        /\ \E i \in 1..Len(routes["GET"]) :
              /\ routes["GET"][i].operation.operationID = "getX"
              /\ RouteMatches(routes["GET"][i], req[w].path)

\* the first of "200", "201", "202" that the operation declares, "" if none
FirstSuccessCode(operation) ==
    IF "200" \in DOMAIN operation.responses THEN "200"
    ELSE IF "201" \in DOMAIN operation.responses THEN "201"
    ELSE IF "202" \in DOMAIN operation.responses THEN "202"
    ELSE ""

\* C5: a routed request uses the response of the first status code among
\* 200, 201, 202 that its operation declares; it is answered 500 when the
\* operation declares none; and a request that passes every check is answered
\* 200, whichever of the three codes its response was declared under.
C5_FirstSuccessResponse ==
    \A w \in Workers :
        matched[w] # Nil =>
            LET operation == Deref(matched[w]).operation
            IN  /\ pc[w] \in {"resolve", "parse", "validate", "expand", "generate"}
                    => (selected[w].code = FirstSuccessCode(operation)
                            /\ selected[w].code # "")
                /\ (Ended(w) /\ FirstSuccessCode(operation) = "")
                    => (Answered(w, StatusInternalServerError)
                            /\ out[w][1].body = createInternalServerError
                            /\ log[w] = <<"auth", "route", "lookup">>)
                /\ (pc[w] = "done" /\ out[w][1].body.kind = "data")
                    => (Answered(w, StatusOK) /\ generated[w] # Nil)
                /\ (pc[w] = "done" /\ generated[w] # Nil)
                    => (Answered(w, StatusOK) \/ Answered(w, StatusInternalServerError))

\* a request whose response is declared under 201, with 202 declared too,
\* passed every check and was answered 200
C5_Witness ==
    \E w \in Workers :
        /\ pc[w] = "done"
        /\ Answered(w, StatusOK)
        /\ selected[w].code = "201"
        /\ "202" \in DOMAIN Deref(matched[w]).operation.responses

\* the text of a header value before its first `;`
BeforeSemicolon(value) ==
    IF \E i \in 1..Len(value) : value[i] = ";"
    THEN LET i == CHOOSE k \in 1..Len(value) :
                    value[k] = ";" /\ \A j \in 1..(k - 1) : value[j] # ";"
         IN  SubSeq(value, 1, i - 1)
    ELSE value

\* the stage is among those run for the request of worker w
Ran(w, stage) == \E i \in 1..Len(log[w]) : log[w][i] = stage

\* C6: for a routed request that is neither GET nor DELETE and whose
\* operation declares the media type M: with an empty Content-Type, or one
\* whose text before the first `;` is not M, the request never succeeds, and
\* the Content-Type check answers 400; with a Content-Type whose text before
\* the first `;` is M the check passes on to coercion.  A GET or DELETE
\* request passes the check whatever its Content-Type.
C6_ContentTypeCheck ==
    \A w \in Workers :
        matched[w] # Nil =>
            LET route == Deref(matched[w])
                ct == req[w].contentType
                exempt == req[w].method \in {"GET", "DELETE"}
            IN  /\ (~exempt /\ route.requestMediaType # Nil) =>
                      LET mismatch == BeforeSemicolon(ct) # Deref(route.requestMediaType)
                      IN  /\ (ct = <<>> \/ mismatch) =>
                                /\ ~Answered(w, StatusOK)
                                /\ generated[w] = Nil
                                /\ ~Ran(w, "coerce")
                          /\ (ct = <<>> /\ Ran(w, "contentType")) =>
                                /\ Answered(w, StatusBadRequest)
                                /\ out[w][1].body.message = "contentTypeEmpty"
                          /\ (ct # <<>> /\ mismatch /\ Ran(w, "contentType")) =>
                                /\ Answered(w, StatusBadRequest)
                                /\ out[w][1].body.message = "contentTypeMismatched"
                          /\ (ct # <<>> /\ ~mismatch /\ Ran(w, "contentType")) =>
                                Ran(w, "coerce")
                /\ exempt =>
                      /\ Ran(w, "contentType") => Ran(w, "coerce")
                      /\ Answered(w, StatusBadRequest) =>
                            out[w][1].body.message
                                \notin {"contentTypeEmpty", "contentTypeMismatched"}

\* a request whose Content-Type carries a parameter after M passed the check
\* and went on to be answered 200
C6_Witness ==
    \E w \in Workers :
        /\ req[w].method = "PATCH"
        /\ req[w].contentType = sApplicationJSON \o <<";", "c">>
        /\ Answered(w, StatusOK)

\* the stages of HandleRequest, in their order
StageOrder ==
    <<"auth", "route", "lookup", "resolve", "parse", "contentType", "coerce",
      "validate", "expand", "generate">>

\* the statuses a handler answers with when the stage is the last it ran
StatusesOf(stage) ==
    CASE stage = "auth" -> {StatusUnauthorized}
      [] stage = "route" -> {StatusNotFound}
      [] stage \in {"lookup", "resolve"} -> {StatusInternalServerError}
      [] stage \in {"parse", "contentType", "coerce", "validate"} -> {StatusBadRequest}
      [] stage = "generate" -> {StatusOK, StatusInternalServerError}
      [] OTHER -> {}

\* C7: the stages of a request run in the fixed order authorization,
\* routing, response lookup, response resolution, parsing, Content-Type check,
\* coercion, validation, expansion extraction, generation; a response is
\* written once, by the last stage run, with that stage's status; the
\* generator runs only after every earlier stage: a bad Authorization header
\* gets 401 whatever the path, and an authorized request to an unknown path
\* gets 404 whatever its Content-Type.
C7_FixedOrderOfChecks ==
    \A w \in Workers :
        LET noRoute == \A i \in 1..Len(RoutesOf(req[w].method)) :
                            ~RouteMatches(RoutesOf(req[w].method)[i], req[w].path)
        IN  /\ Len(log[w]) <= Len(StageOrder)
            /\ log[w] = SubSeq(StageOrder, 1, Len(log[w]))
            /\ Len(out[w]) <= 1
            /\ Len(out[w]) = 1 =>
                  /\ pc[w] = "done"
                  /\ out[w][1].status \in StatusesOf(log[w][Len(log[w])])
            /\ generated[w] # Nil => log[w] = StageOrder
            /\ (pc[w] = "done" /\ ~validateAuth(req[w].auth)) =>
                  (Answered(w, StatusUnauthorized) /\ log[w] = <<"auth">>)
            /\ (Ended(w) /\ validateAuth(req[w].auth) /\ noRoute) =>
                  (Answered(w, StatusNotFound) /\ log[w] = <<"auth", "route">>)

\* a request with a bad Authorization header, an unknown path and a wrong
\* Content-Type was answered 401
C7_Witness ==
    \E w \in Workers :
        /\ Answered(w, StatusUnauthorized)
        /\ req[w].path = sV2 \o <<"/", "a">>
        /\ req[w].method = "POST"
        /\ req[w].contentType = <<"t", "/", "p">>

\* C8: every response with a status other than 401 carries X-Request-Id:
\* req_123 and a Request-Id header equal to the request's Request-Id; the 401
\* response carries neither header.
C8_RequestIdHeaders ==
    \A w \in Workers :
        \A k \in 1..Len(out[w]) :
            LET h == out[w][k].header
            IN  IF out[w][k].status # StatusUnauthorized
                THEN /\ "X-Request-Id" \in DOMAIN h
                     /\ h["X-Request-Id"] = <<"r", "e", "q", "_", "1", "2", "3">>
                     /\ "Request-Id" \in DOMAIN h
                     /\ h["Request-Id"] = req[w].requestId
                ELSE /\ "X-Request-Id" \notin DOMAIN h
                     /\ "Request-Id" \notin DOMAIN h

\* a response other than the 401 to a request that carried a Request-Id
C8_Witness ==
    \E w \in Workers :
        /\ Answered(w, StatusBadRequest)
        /\ req[w].requestId = <<"r", "1">>

\* the PathParams has a primary ID
PrimaryIDSet(pp) == pp # Nil /\ Deref(pp).PrimaryID # Nil

\* C9 as claimed: the PathParams handed to the generator has PrimaryID set
\* exactly when the matched route's hasPrimaryID is true, also for a route
\* without path parameters whose template ends with an action suffix.
C9_PrimaryIDIffFlag ==
    \A w \in Workers :
        generated[w] # Nil =>
            (PrimaryIDSet(Deref(generated[w]).PathParams)
                <=> Deref(matched[w]).hasPrimaryID)

\* C9, amended: for a matched route with at least one path parameter the
\* PathParams handed to the generator is not nil and has PrimaryID set exactly
\* when hasPrimaryID is true; for a matched route without path parameters the
\* PathParams is nil, so no PrimaryID is set, whatever hasPrimaryID is.
C9_PrimaryIDIffFlagAndParameter ==
    \A w \in Workers :
        generated[w] # Nil =>
            LET route == Deref(matched[w])
                pp == Deref(generated[w]).PathParams
            IN  IF Len(route.pathParamNames) >= 1
                THEN pp # Nil /\ (Deref(pp).PrimaryID # Nil <=> route.hasPrimaryID)
                ELSE pp = Nil

\* the generator ran for a route with a parameter and no primary ID, and for
\* the parameterless /x/cancel, whose flag is true, it got a nil PathParams
C9_Witness ==
    \E w \in Workers :
        /\ generated[w] # Nil
        /\ Deref(matched[w]).operation.operationID = "cancelAll"
        /\ Deref(matched[w]).hasPrimaryID
        /\ Deref(generated[w]).PathParams = Nil

\* the path template the route was compiled from
TemplateOf(route) ==
    LET p == CHOOSE q \in 1..Len(Paths) :
                \E v \in DOMAIN Paths[q].verbs :
                    Paths[q].verbs[v].operationID = route.operation.operationID
    IN  Paths[p].path

\* the segments of a path: the texts between its slashes
Segments(path) == Tail(Split(path, <<"/">>))

\* the positions, from k on, of the `{name}` segments among the segments
RECURSIVE ParamPositions(_, _)
ParamPositions(segments, k) ==
    IF k > Len(segments) THEN <<>>
    ELSE (IF segments[k][1] = "{" /\ segments[k][Len(segments[k])] = "}"
          THEN <<k>> ELSE <<>>) \o ParamPositions(segments, k + 1)

\* C10: for a matched route with n >= 1 path parameters there are n-1
\* secondary IDs when hasPrimaryID is true and n otherwise; the i-th has the
\* name of the template's i-th parameter and the request's segment at that
\* parameter's place as its ID; when hasPrimaryID is true PrimaryID is the
\* request's segment at the place of the last parameter.
C10_SecondaryIDs ==
    \A w \in Workers :
        (matched[w] # Nil /\ Len(Deref(matched[w]).pathParamNames) >= 1) =>
            LET route == Deref(matched[w])
                template == Segments(TemplateOf(route))
                request == Segments(Deref(PathToMatch(req[w].path)))
                at == ParamPositions(template, 1)
                n == Len(at)
            IN  /\ pathParams[w] # Nil
                /\ LET pp == Deref(pathParams[w])
                   IN  /\ Len(pp.SecondaryIDs) = IF route.hasPrimaryID THEN n - 1 ELSE n
                       /\ \A i \in 1..Len(pp.SecondaryIDs) :
                            /\ <<"{">> \o pp.SecondaryIDs[i].Name \o <<"}">> = template[at[i]]
                            /\ pp.SecondaryIDs[i].ID = request[at[i]]
                       /\ route.hasPrimaryID => pp.PrimaryID = Ptr(request[at[n]])
                       /\ ~route.hasPrimaryID => pp.PrimaryID = Nil

\* a route with two parameters matched: one secondary ID and the primary ID
C10_Witness ==
    \E w \in Workers :
        /\ pathParams[w] # Nil
        /\ Len(Deref(matched[w]).pathParamNames) = 2
        /\ Len(Deref(pathParams[w]).SecondaryIDs) = 1
        /\ Deref(pathParams[w]).SecondaryIDs[1].ID # Deref(Deref(pathParams[w]).PrimaryID)

\* C11: a request path that does not begin with /v2, such as one in which
\* /v2 first occurs after other segments, matches no route and is answered
\* 404.
C11_OnlyLeadingPrefixStripped ==
    \A w \in Workers :
        (Ended(w) /\ validateAuth(req[w].auth) /\ ~HasPrefix(req[w].path, sV2)) =>
            (matched[w] = Nil /\ Answered(w, StatusNotFound))

\* BuildQuerySchema was called and has returned
QueryReturned == call.fn = "BuildQuerySchema" /\ call.returned

\* the parameters the entries of the operation of the call stand for
StoodFor ==
    LET ps == call.args.operationParameters
    IN  IF ps = Nil THEN <<>>
        ELSE [i \in 1..Len(Deref(ps)) |-> Stands(Deref(ps)[i], call.args.parameters)]

\* the query parameters among them
QueryParameters ==
    {Deref(StoodFor[i]) : i \in {j \in 1..Len(StoodFor) :
        StoodFor[j] # Nil /\ Deref(StoodFor[j]).In = "query"}}

\* C12: the schema BuildQuerySchema returns has type object and
\* additionalProperties false, and its properties are exactly the operation's
\* parameters with in = query, keyed by name: a parameter with another `in`
\* contributes no property, and a query parameter without a schema gets the
\* property schema {type: object}.  An operation without a $ref always gets
\* a schema.
C12_QuerySchemaProperties ==
    QueryReturned =>
        /\ (\A i \in 1..Len(StoodFor) : Deref(call.args.operationParameters)[i].Ref = <<>>)
                => call.result.outcome = "ok"
        /\ call.result.outcome = "ok" =>
              LET schema == Deref(call.result.schema)
              IN  /\ schema.Type = "object"
                  /\ schema.AdditionalProperties = FALSE
                  /\ DOMAIN schema.Properties = {q.Name : q \in QueryParameters}
                  /\ \A q \in QueryParameters :
                        schema.Properties[q.Name] =
                            IF q.Schema = Nil THEN Ptr([Type |-> "object"]) ELSE q.Schema

\* a schema built from a query parameter without a schema and a path parameter
C12_Witness ==
    /\ QueryReturned
    /\ call.result.outcome = "ok"
    /\ \E q \in QueryParameters : q.Schema = Nil
    /\ \E i \in 1..Len(StoodFor) : StoodFor[i] # Nil /\ Deref(StoodFor[i]).In = "path"

\* the names of the required query parameters among the entries from i on
RECURSIVE RequiredNames(_, _)
RequiredNames(stood, i) ==
    IF i > Len(stood) THEN <<>>
    ELSE (IF stood[i] # Nil /\ Deref(stood[i]).In = "query" /\ Deref(stood[i]).Required
          THEN <<Deref(stood[i]).Name>> ELSE <<>>) \o RequiredNames(stood, i + 1)

\* C13: the required list of the schema BuildQuerySchema returns holds
\* exactly the names of the query parameters declared required, in parameter
\* order: it is empty when none is required, a required parameter that is not
\* a query parameter is not listed, and every listed name is a key of the
\* schema's properties.
C13_RequiredList ==
    (QueryReturned /\ call.result.outcome = "ok") =>
        LET schema == Deref(call.result.schema)
        IN  /\ schema.Required = RequiredNames(StoodFor, 1)
            /\ \A i \in 1..Len(schema.Required) :
                    schema.Required[i] \in DOMAIN schema.Properties

\* of a required query parameter b and a required path parameter only b is
\* listed
C13_Witness ==
    /\ QueryReturned
    /\ call.result.outcome = "ok"
    /\ Deref(call.result.schema).Required = <<"b">>
    /\ \E i \in 1..Len(StoodFor) :
            Deref(StoodFor[i]).In = "path" /\ Deref(StoodFor[i]).Required

\* C14: BuildQuerySchema never faults on a $ref value; for a $ref that names
\* no entry of components/parameters it returns an error and no schema, and
\* otherwise it returns a schema.
C14_RefsResolvedOrError ==
    QueryReturned =>
        /\ call.result.outcome # "panic"
        /\ (\E i \in 1..Len(StoodFor) : StoodFor[i] = Nil) =>
                (call.result.outcome = "error" /\ call.result.schema = Nil)
        /\ (\A i \in 1..Len(StoodFor) : StoodFor[i] # Nil) =>
                call.result.outcome = "ok"

\* how often the string occurs in the sequence
Occurrences(seq, s) == Cardinality({i \in 1..Len(seq) : seq[i] = s})

\* C15: extractExpansions returns without fault for every decoded value of
\* `expand`; it returns the one-element sequence of the value when `expand`
\* is a string, the elements of the list when it is a list, and no
\* expansions and a nil tree when `expand` is absent or of another type.
C15_ExpansionsExtracted ==
    (call.fn = "extractExpansions" /\ call.returned) =>
        LET data == call.args.data
            r == call.result
        IN  /\ r.outcome = "ok"
            /\ IF "expand" \notin DOMAIN data
                 THEN r.level = Nil /\ r.raw = <<>>
               ELSE IF data["expand"].kind = "string"
                 THEN r.level # Nil /\ r.raw = <<data["expand"].str>>
               ELSE IF data["expand"].kind = "list"
                 THEN /\ r.level # Nil
                      /\ Len(r.raw) = Len(data["expand"].elems)
                      /\ \A i \in 1..Len(data["expand"].elems) :
                            /\ data["expand"].elems[i].kind = "string"
                            /\ Occurrences(r.raw, data["expand"].elems[i].str)
                                = Cardinality({j \in 1..Len(data["expand"].elems) :
                                        data["expand"].elems[j] = data["expand"].elems[i]})
               ELSE r.level = Nil /\ r.raw = <<>>

\* what a request handled alone, from its receipt to the end of the handler,
\* can come to with this route table: the responses written and the
\* parameters handed to the generator, for everything the parser, the coercer,
\* the validator and the generator can return for it
HandledAlone(table, r) ==
    LET h == SetHeader(SetHeader(<<>>, "X-Request-Id", sReq123), "Request-Id", r.requestId)
        rt == routeRequest(table, r.method, r.path)
        route == Deref(rt.route)
        found == LookupResponse(route.operation)
        resolved == ResolveResponse(Deref(found).response)
        error(status, message) ==
            [out |-> <<writeResponse(h, status,
                                     createTelnyxError(typeInvalidRequestError, message))>>,
             generated |-> Nil]
        panic == [out |-> <<>>, generated |-> Nil]
        params(data) ==
            Ptr([Expansions |-> extractExpansions(data).level, PathParams |-> rt.pathParams,
                 RequestData |-> Ptr(data), RequestMethod |-> r.method,
                 RequestPath |-> r.path, Schema |-> resolved.schema,
                 WrapWithList |-> resolved.wrapWithList])
        checked(data, coerceErr, validateErr, generateErr) ==
            LET v == validateAndCoerceRequest(r.method, r.contentType, route,
                                              coerceErr, validateErr)
            IN  IF v.outcome = "panic" THEN panic
                ELSE IF v.outcome # "ok" THEN error(StatusBadRequest, v.outcome)
                ELSE IF extractExpansions(data).outcome = "panic" THEN panic
                ELSE IF generateErr
                  THEN [out |-> <<writeResponse(h, StatusInternalServerError,
                                                createInternalServerError)>>,
                        generated |-> params(data)]
                ELSE [out |-> <<writeResponse(h, StatusOK, [kind |-> "data"])>>,
                      generated |-> params(data)]
    IN  IF ~validateAuth(r.auth)
          THEN {[out |-> <<writeResponse(<<>>, StatusUnauthorized,
                             createTelnyxError(typeInvalidRequestError,
                                               "invalidAuthorization"))>>,
                 generated |-> Nil]}
        ELSE IF rt.route = Nil THEN {error(StatusNotFound, "invalidRoute")}
        ELSE IF found = Nil THEN {error(StatusInternalServerError, "internalServerError")}
        ELSE IF resolved.outcome = "panic" THEN {panic}
        ELSE IF resolved.outcome = "error"
          THEN {error(StatusInternalServerError, "internalServerError")}
        ELSE {error(StatusBadRequest, "parseError")} \cup
             {checked(data, coerceErr, validateErr, generateErr) :
                data \in PipelineData, coerceErr \in BOOLEAN, validateErr \in BOOLEAN,
                generateErr \in BOOLEAN}

\* the handler of worker w ended as its request can end when handled alone
EndedAsAlone(w) ==
    [out |-> out[w], generated |-> generated[w]] \in HandledAlone(routes, req[w])

\* the route table holds the routes of the document, each verb's in
\* ascending order of parameter count, as initializeRouter left it
TableOfDocument ==
    \A m \in Methods :
        LET declared == {d \in (1..Len(Paths)) \X Verbs :
                            d[2] \in DOMAIN Paths[d[1]].verbs /\ ToUpper(d[2]) = m}
        IN  /\ Len(routes[m]) = Cardinality(declared)
            /\ Ascending(routes[m])
            /\ \A d \in declared :
                 \E i \in 1..Len(routes[m]) :
                    routes[m][i] = MakeRoute(Paths[d[1]].path, d[2], Paths[d[1]].verbs[d[2]])

ListedFields ==
    {"$ref", "additionalProperties", "allOf", "anyOf", "oneOf", "description",
     "discriminator", "enum", "example", "format", "items", "maxLength",
     "minLength", "maximum", "minimum", "default", "nullable", "pattern",
     "properties", "required", "title", "type", "readOnly", "writeOnly",
     "x-expandableFields", "x-expansionResources", "x-resourceId",
     "x-enum-descriptions", "x-enum-varnames", "x-stripeResource",
     "x-stripeBypassValidation"}

\* the schemas nested in a schema object under properties, items and
\* allOf/anyOf/oneOf
NestedSchemas(object) ==
    (IF "items" \in DOMAIN object THEN {object["items"]} ELSE {})
    \cup (IF "properties" \in DOMAIN object
          THEN {object["properties"][n] : n \in DOMAIN object["properties"]} ELSE {})
    \cup UNION {IF f \in DOMAIN object
                THEN {object[f][i] : i \in 1..Len(object[f])} ELSE {} :
                    f \in {"allOf", "anyOf", "oneOf"}}

\* the schemas among the alternatives of x-expansionResources
ResourceSchemas(object) ==
    IF "x-expansionResources" \in DOMAIN object
            /\ "oneOf" \in DOMAIN object["x-expansionResources"]
    THEN {object["x-expansionResources"]["oneOf"][i] :
            i \in 1..Len(object["x-expansionResources"]["oneOf"])}
    ELSE {}

\* the object, or a schema nested in it, has a field outside the list
RECURSIVE HasUnlistedField(_)
HasUnlistedField(object) ==
    \/ \E f \in DOMAIN object : f \notin ListedFields
    \/ \E nested \in NestedSchemas(object) : HasUnlistedField(nested)

\* the object and every schema in it uses only listed fields
RECURSIVE OnlyListedFields(_)
OnlyListedFields(object) ==
    /\ DOMAIN object \subseteq ListedFields
    /\ \A nested \in NestedSchemas(object) \cup ResourceSchemas(object) :
            OnlyListedFields(nested)

\* C17: decoding a schema fails whenever the schema object, or a schema
\* nested in it under properties, items or allOf/anyOf/oneOf, has a field
\* outside the fixed list of supported fields, and the target Schema is then
\* left as it was; a schema that uses only listed fields, x-resourceId,
\* x-expandableFields and x-expansionResources among them, decodes without
\* error.
C17_UnknownFieldsRejected ==
    (call.fn = "UnmarshalJSON" /\ call.returned) =>
        /\ HasUnlistedField(call.args.data) => call.result.err
        /\ call.result.err => call.result.target = call.args.target
        /\ OnlyListedFields(call.args.data) => ~call.result.err

\* a schema whose only unlisted field is in a schema nested two deep was
\* rejected and the target, decoded before, kept its value
C17_Witness ==
    /\ call.fn = "UnmarshalJSON"
    /\ call.returned
    /\ call.result.err
    /\ DOMAIN call.args.data \subseteq ListedFields
    /\ \A nested \in NestedSchemas(call.args.data) : DOMAIN nested \subseteq ListedFields
    /\ HasUnlistedField(call.args.data)
    /\ call.result.target = "type" :> "old"

\* C18: running the ID reflector, the record-and-replace pass and then the
\* distribute pass, a second time on the value it returned, with the
\* PathParams as the first run left them, gives the value of the first run.
C18_ReflectorIdempotent ==
    (call.fn = "ReflectIDs" /\ Len(call.result) = 2) =>
        call.result[2].data = call.result[1].data

\* the thirteen action suffixes
ActionSuffixes ==
    {<<"/", "a", "p", "p", "r", "o", "v", "e">>,
     <<"/", "c", "a", "p", "t", "u", "r", "e">>,
     <<"/", "c", "a", "n", "c", "e", "l">>,
     <<"/", "c", "l", "o", "s", "e">>,
     <<"/", "d", "e", "c", "l", "i", "n", "e">>,
     <<"/", "f", "i", "n", "a", "l", "i", "z", "e">>,
     <<"/", "m", "a", "r", "k", "_", "u", "n", "c", "o", "l", "l", "e", "c", "t",
       "i", "b", "l", "e">>,
     <<"/", "p", "a", "y">>,
     <<"/", "r", "e", "f", "u", "n", "d">>,
     <<"/", "r", "e", "j", "e", "c", "t">>,
     <<"/", "s", "e", "n", "d">>,
     <<"/", "v", "e", "r", "i", "f", "y">>,
     <<"/", "v", "o", "i", "d">>}

\* the text ends with the ending
EndsWith(text, ending) ==
    \E head \in 0..Len(text) : SubSeq(text, head + 1, Len(text)) = ending

\* C19: initializeRouter sets a route's hasPrimaryID to true exactly when its
\* path template ends with `}` or with one of the thirteen action suffixes,
\* and to false for every other template.
C19_PrimaryIDBySuffix ==
    (call.fn = "MakeRoute" /\ call.returned) =>
        (call.result.hasPrimaryID <=>
            \/ EndsWith(call.args.path, <<"}">>)
            \/ \E suffix \in ActionSuffixes : EndsWith(call.args.path, suffix))

\* a route was built with the flag for a template that ends with the last
\* suffix of the list
C19_Witness ==
    /\ call.fn = "MakeRoute"
    /\ call.returned
    /\ call.result.hasPrimaryID
    /\ call.args.path = <<"/", "{", "a", "}", "/", "y", "/", "v", "o", "i", "d">>

\* the segments of a template that are not empty
TemplateSegments(path) ==
    SelectSeq(Split(path, <<"/">>), LAMBDA segment : segment # <<>>)

\* the segment is a `{name}`
IsParameter(segment) ==
    /\ Len(segment) > 2
    /\ Head(segment) = "{"
    /\ segment[Len(segment)] = "}"

\* the names of the `{name}` segments, in order of appearance
ParameterNames(path) ==
    LET parameters == SelectSeq(TemplateSegments(path), IsParameter)
    IN  [i \in 1..Len(parameters) |-> SubSeq(parameters[i], 2, Len(parameters[i]) - 1)]

\* the text the segments spell once the captures stand for the parameters
RECURSIVE Spelled(_, _)
Spelled(segments, captures) ==
    IF segments = <<>> THEN <<>>
    ELSE IF IsParameter(Head(segments)) /\ captures # <<>>
      THEN <<"/">> \o Head(captures) \o Spelled(Tail(segments), Tail(captures))
      ELSE <<"/">> \o Head(segments) \o Spelled(Tail(segments), captures)

\* C20: the pattern compilePath builds is anchored at both ends and has one
\* capture group per `{name}` segment, each matching one or more characters
\* none of which is `.`, `/` or `?`; empty template segments are skipped; the
\* name list holds the parameter names in order of appearance and has as many
\* entries as the pattern has capture groups, so that routeRequest never
\* reads a capture that does not exist.
C20_CompiledPattern ==
    (call.fn = "compilePath" /\ call.returned) =>
        LET pattern == call.result.pattern
            names == call.result.names
            segments == TemplateSegments(call.args.path)
            groups == {i \in 1..Len(pattern) : pattern[i].k = "cap"}
            slashes == {i \in 1..Len(pattern) :
                            pattern[i].k = "lit" /\ pattern[i].c = "/"}
        IN  /\ Cardinality(groups) = Len(SelectSeq(segments, IsParameter))
            /\ Cardinality(slashes) = Len(segments)
            /\ names = ParameterNames(call.args.path)
            /\ Len(names) = Cardinality(groups)
            /\ \A m \in 1..Len(call.result.matches) :
                LET firstMatch == call.result.matches[m]
                IN  /\ Len(firstMatch) = Len(names) + 1
                    /\ \A i \in 1..Len(names) : i + 1 \in DOMAIN firstMatch
                    /\ \A i \in 2..Len(firstMatch) :
                          /\ firstMatch[i] # <<>>
                          /\ \A k \in 1..Len(firstMatch[i]) :
                                firstMatch[i][k] \notin {".", "/", "?"}
                    /\ call.args.text = Spelled(segments, Tail(firstMatch))

\* a template with an empty segment and two parameters was compiled and its
\* pattern matched a text
C20_Witness ==
    /\ call.fn = "compilePath"
    /\ call.returned
    /\ call.args.path = <<"/", "/", "{", "a", "}", "/", "{", "i", "d", "}">>
    /\ call.result.matches # <<>>
    /\ call.result.names = << <<"a">>, <<"i", "d">> >>

\* C21: every literal segment of a path template matches only itself: the
\* compiled pattern accepts a text exactly when the text has the template's
\* number of segments, each segment of the template that is not a `{name}`
\* is met by the same string, character for character, and each `{name}` by
\* one or more characters other than `.`, `/` and `?`; also when a literal
\* segment holds a `.` or text around a `{name}` part.
C21_LiteralSegmentsVerbatim ==
    (call.fn = "compilePath" /\ call.returned) =>
        LET template == TemplateSegments(call.args.path)
            text == Tail(Split(call.args.text, <<"/">>))
        IN  call.result.matches # <<>> <=>
                /\ Len(text) = Len(template)
                /\ \A i \in 1..Len(template) :
                      IF IsParameter(template[i])
                      THEN /\ text[i] # <<>>
                           /\ \A k \in 1..Len(text[i]) :
                                text[i][k] \notin {".", "/", "?"}
                      ELSE text[i] = template[i]

\* the chains of children of a level: the key sequences that lead to a level
\* below it
RECURSIVE ChildChains(_)
ChildChains(level) ==
    UNION {{<<key>>} \cup {<<key>> \o chain : chain \in ChildChains(level.expansions[key])} :
            key \in DOMAIN level.expansions}

\* the chains that lead to a level with the wildcard bit, the empty chain
\* for the level itself
RECURSIVE WildcardChains(_)
WildcardChains(level) ==
    (IF level.wildcard THEN {<<>>} ELSE {})
    \cup UNION {{<<key>> \o chain : chain \in WildcardChains(level.expansions[key])} :
                    key \in DOMAIN level.expansions}

\* the dot-separated parts of the requested strings
RequestedParts(raw) == {Split(raw[i], <<".">>) : i \in 1..Len(raw)}

\* the parts that ask for children: all of them, or all but a final `*`
ChildParts(parts) ==
    IF parts[Len(parts)] = <<"*">> THEN SubSeq(parts, 1, Len(parts) - 1) ELSE parts

\* C22: parseExpansionLevel returns the prefix tree of the requested strings,
\* in any order and with duplicates: every prefix of the parts of a requested
\* string is a chain of children, except that a final part `*` sets the
\* wildcard bit of the level the parts before it reach; the tree has no other
\* child and no other wildcard bit, and it is no deeper than the largest
\* number of parts.
C22_PrefixTree ==
    (call.fn = "parseExpansionLevel" /\ call.returned) =>
        LET requested == RequestedParts(call.args.raw)
        IN  /\ ChildChains(call.result) =
                    UNION {{SubSeq(ChildParts(parts), 1, n) : n \in 1..Len(ChildParts(parts))} :
                            parts \in requested}
            /\ WildcardChains(call.result) =
                    {SubSeq(parts, 1, Len(parts) - 1) :
                        parts \in {ps \in requested : ps[Len(ps)] = <<"*">>}}
            /\ \A chain \in ChildChains(call.result) :
                    \E parts \in requested : Len(chain) <= Len(parts)

\* a key was asked for by itself, with a child and with a wildcard below it,
\* and the tree has the child and the wildcard bit under the key
C22_Witness ==
    /\ call.fn = "parseExpansionLevel"
    /\ call.returned
    /\ call.args.raw = << <<"a", ".", "b", ".", "*">>, <<"a">> >>
    /\ call.result.expansions[<<"a">>].expansions[<<"b">>].wildcard
    /\ ~call.result.wildcard

\* the text after the last `/` of the ref, the whole ref when it has none
AfterLastSlash(ref) ==
    LET slashes == {i \in 1..Len(ref) : ref[i] = "/"}
    IN  IF slashes = {} THEN ref
        ELSE SubSeq(ref, (CHOOSE i \in slashes : \A j \in slashes : j <= i) + 1, Len(ref))

\* C23: ResolveRef of a schema, and of a response against
\* components/responses, returns its receiver unchanged when the ref is
\* empty; otherwise it returns the component whose name is the suffix of the
\* ref after its last `/`, and for every ref that names no component,
\* whatever its form, it returns an error and does not fault.
C23_ResolveRefOrError ==
    (call.fn = "ResolveRef" /\ call.returned) =>
        LET ref == call.args.receiver.Ref
            name == AfterLastSlash(ref)
        IN  /\ call.result.outcome # "panic"
            /\ IF ref = <<>>
                 THEN /\ call.result.outcome = "ok"
                      /\ call.result.resolved = Ptr(call.args.receiver)
               ELSE IF name \in DOMAIN call.args.components
                 THEN /\ call.result.outcome = "ok"
                      /\ call.result.resolved = Ptr(call.args.components[name])
               ELSE call.result.outcome = "error"

\* the receiver and the schemas reachable through allOf lists, in the order
\* the receiver, then its members depth-first
RECURSIVE AllOfOrder(_, _)
RECURSIVE AllOfOrderFrom(_, _, _)
AllOfOrder(heap, a) == <<a>> \o AllOfOrderFrom(heap, heap[a].AllOf, 1)
AllOfOrderFrom(heap, allOf, i) ==
    IF i > Len(allOf) THEN <<>>
    ELSE AllOfOrder(heap, allOf[i]) \o AllOfOrderFrom(heap, allOf, i + 1)

RECURSIVE SchemaValue(_, _)
SchemaValue(heap, a) ==
    [Type       |-> heap[a].Type,
     Required   |-> heap[a].Required,
     Properties |-> [k \in DOMAIN heap[a].Properties |->
                        SchemaValue(heap, heap[a].Properties[k])],
     AllOf      |-> [i \in 1..Len(heap[a].AllOf) |-> SchemaValue(heap, heap[a].AllOf[i])]]

\* C25: FlattenAllOf is idempotent: flattening the schema FlattenAllOf
\* returned yields a schema equal to it.
C25_FlattenIdempotent ==
    (call.fn = "FlattenAllOf" /\ Len(call.result) = 2) =>
        SchemaValue(call.result[2].heap, call.result[2].output)
            = SchemaValue(call.result[2].heap, call.result[1].output)

\* the flattening of a receiver with a member that has a member was
\* flattened again, and it holds what the innermost member gave
C25_Witness ==
    /\ call.fn = "FlattenAllOf"
    /\ Len(call.result) = 2
    /\ call.args.heap[1].AllOf = <<2>>
    /\ call.args.heap[2].AllOf = <<3>>
    /\ call.args.heap[1].Type = ""
    /\ call.args.heap[2].Type = ""
    /\ call.result[2].heap[call.result[2].output].Type = TypeString

\* the names a list holds
NamesOf(list) == {list[i] : i \in 1..Len(list)}

\* C26: the container fields of FlattenAllOf(s) are the union over s and the
\* members of its allOf, recursively: its properties has every property name
\* that s or a member declares, and its required every name that s or a
\* member lists as required; each scalar field has the first non-zero value
\* met in the order s, then its allOf members depth-first.
C26_FlattenDeepUnion ==
    (call.fn = "FlattenAllOf" /\ Len(call.result) >= 1) =>
        LET before == call.args.heap
            order == AllOfOrder(before, call.args.s)
            flat == call.result[1].heap[call.result[1].output]
            typed == {i \in 1..Len(order) : before[order[i]].Type # ""}
        IN  /\ DOMAIN flat.Properties =
                    UNION {DOMAIN before[order[i]].Properties : i \in 1..Len(order)}
            /\ UNION {NamesOf(before[order[i]].Required) : i \in 1..Len(order)}
                    \subseteq NamesOf(flat.Required)
            /\ flat.Type = IF typed = {} THEN ""
                           ELSE before[order[CHOOSE i \in typed :
                                                \A j \in typed : i <= j]].Type

(***************************************************************************)
(* HandleRequest: the response that cannot be resolved                     *)
(***************************************************************************)

\* the response HandleRequest selected for the request of worker w
SelectedResponse(w) == Deref(matched[w]).operation.responses[selected[w].code]

\* the request of worker w was routed, its response was selected and the
\* resolution of that response was the last stage the handler ran
ResolutionEnded(w) ==
    /\ pc[w] \in {"done", "panicked"}
    /\ log[w] # <<>>
    /\ log[w][Len(log[w])] = "resolve"

\* C27: a routed request whose selected response cannot be resolved to a
\* component schema is answered with status 500 and the internal server
\* error body, and the handler does not fault.
C27_UnresolvableAnswers500 ==
    \A w \in Workers :
        (ResolutionEnded(w) /\ ResolveResponse(SelectedResponse(w)).outcome # "ok")
            => /\ pc[w] = "done"
               /\ Len(out[w]) = 1
               /\ out[w][1].status = StatusInternalServerError
               /\ out[w][1].body = createInternalServerError


(***************************************************************************)
(* HandleRequest: one response for every request                           *)
(***************************************************************************)

\* HandleRequest has ended for the request of worker w: it returned, or it
\* panicked and net/http recovered the panic and closed the connection
HandlerEnded(w) == pc[w] \in {"done", "panicked"}

\* C28: HandleRequest writes exactly one response for every request: no
\* path writes a second response and none ends without having written one.
C28_ExactlyOneResponse ==
    \A w \in Workers :
        /\ Len(out[w]) <= 1
        /\ HandlerEnded(w) => Len(out[w]) = 1


(***************************************************************************)
(* HandleRequest: the operation without a request body                     *)
(***************************************************************************)

\* the request of worker w was routed to an operation that declares no
\* request body, with a method whose Content-Type is checked
NoBodyRequest(w) ==
    /\ matched[w] # Nil
    /\ Deref(matched[w]).operation.requestBody = Nil
    /\ req[w].method \notin {"GET", "DELETE"}

\* C29: a request with a method other than GET and DELETE, routed to an
\* operation that declares no request body, is answered with an HTTP
\* status, 400 when its Content-Type is empty; the handler never reads
\* through the absent media type.
C29_NoBodyAnswered ==
    \A w \in Workers :
        (NoBodyRequest(w) /\ HandlerEnded(w))
            => /\ pc[w] = "done"
               /\ Len(out[w]) = 1
               /\ (req[w].contentType = <<>> /\ "contentType" \in NamesOf(log[w]))
                      => out[w][1].status = StatusBadRequest


(***************************************************************************)
(* initializeRouter and routeRequest: the same route on every start        *)
(***************************************************************************)

\* the table of a start whose loop visits the first n paths of the
\* document in the order the document lists them
RECURSIVE RoutesAfter(_)
RoutesAfter(n) ==
    IF n = 0 THEN [m \in Methods |-> <<>>] ELSE AppendRoutes(RoutesAfter(n - 1), n)

\* s.routes after that start
RoutesOfOrderedStart == [m \in Methods |-> SortRoutes(RoutesAfter(Len(Paths))[m])]

\* C30: for a fixed document a request is routed to the same route on every
\* start of the server, also when two routes of its verb with the same
\* number of parameters match its path: the route every start selects is
\* the route selected by the start that visits the paths in document order.
C30_RoutingDeterministic ==
    \A w \in Workers :
        "route" \in NamesOf(log[w])
            => matched[w] = routeRequest(RoutesOfOrderedStart, req[w].method,
                                         req[w].path).route

=============================================================================
